---- MODULE Spec2Model ----
(***************************************************************************)
(* A model of gelfie's two transports.                                     *)
(*                                                                         *)
(*   TcpTransport (lib/tcp.js): a persistent stream with a bounded backlog *)
(*   that is filled while the socket reports backpressure and drained on   *)
(*   the socket's 'drain' event.                                           *)
(*                                                                         *)
(*   UdpTransport (lib/udp.js): datagrams, chunked with a 12 byte header   *)
(*   when the message is larger than bufferSize.                           *)
(*                                                                         *)
(* JavaScript runs every handler to completion on one thread, so each      *)
(* handler (a method call, an event handler, the continuation of an await) *)
(* is one action.                                                          *)
(***************************************************************************)
EXTENDS Integers, Sequences, FiniteSets

VARIABLES
  tcp,          \* the TcpTransport object: backlog, canAcceptData, client, maxBacklogSize, socket
  tcpSockets,   \* number of net.Socket objects created so far (the newest is the id)
  tcpWritten,   \* what socket.write() was handed, in order: [sock, data, call]
  tcpNeedDrain, \* sockets that returned false from write() and have not emitted 'drain' yet
  tcpEnded,     \* sockets on which end() was called, in order
  tcpCalls,     \* number of send() calls made so far
  tcpQueued,    \* for each backlog entry, the number of the send() call that queued it
  tcpDropped,   \* send() calls that took the 'too many messages buffered' branch
  tcpLive,      \* send() calls made while this.socket was a socket
  tcpCloses,    \* number of close() calls made so far
  tcpDiscarded, \* send() calls whose message was in the backlog when close() dropped it
  udp,          \* the UdpTransport object: bufferSize, client, compression, socket, reuseBuffer
  udpSockets,   \* number of dgram sockets created so far (the newest is the id)
  udpClosed,    \* sockets on which close() was called, in order
  udpCloses,    \* number of close() calls counted so far
  udpTask,      \* the send() calls: each call's position and the locals it holds across awaits
  udpBufs,      \* the chunk buffers allocated so far, with their current bytes
  udpWire,      \* what socket.send() was handed, in order: [task, buf, bytes, cb]
  udpSentOn,    \* the socket whose send() was called last
  udpInflight,  \* indices of udpWire whose write has not completed yet
  raised,       \* the 'error' events the sockets have emitted, in order: [transport, sock, err]
  options,      \* the options object a constructor is given
  gelf,         \* the GelfClient object: status, host, version, transport, serializer,
                \* and the number of log calls it was given
  sent,         \* the messages the client handed to its transport's send(), in order
  errors,       \* what was emitted as 'error' on the client, in order
  thrown        \* exceptions raised out of a method or an event handler, in order

\* The client's own state, which no handler of a transport touches.
clientVars == <<options, gelf, sent>>

tcpVars == <<tcp, tcpSockets, tcpWritten, tcpNeedDrain, tcpEnded, tcpCalls,
             tcpQueued, tcpDropped, tcpLive, tcpCloses, tcpDiscarded, clientVars>>
udpVars == <<udp, udpSockets, udpClosed, udpCloses, udpTask, udpBufs, udpWire,
             udpSentOn, udpInflight, raised, clientVars>>
vars == <<tcpVars, udpVars, errors, thrown>>

\* null, for a field that holds an object (the client), a socket (sockets are
\* numbered from 1) and the backlog (whose entries are frames, never <<-1>>).
null == "null"
nullSocket == 0
nullBacklog == << <<-1>> >>

\* A JavaScript value of an options object or an argument: its typeof (t), and
\* its value as an integer (n) or a string (s). A number that is not an integer
\* has s = "NaN", "Infinity" or "fraction" (n + 0.5), and s = "unsafe" marks
\* an integer beyond Number.MAX_SAFE_INTEGER.
Undefined == [t |-> "undefined", n |-> 0, s |-> ""]
Num(n) == [t |-> "number", n |-> n, s |-> ""]
NotANumber == [t |-> "number", n |-> 0, s |-> "NaN"]
Infinity == [t |-> "number", n |-> 0, s |-> "Infinity"]
Fraction(n) == [t |-> "number", n |-> n, s |-> "fraction"]
Unsafe == [t |-> "number", n |-> 0, s |-> "unsafe"]
Str(s) == [t |-> "string", n |-> 0, s |-> s]
Bool(b) == [t |-> "boolean", n |-> IF b THEN 1 ELSE 0, s |-> ""]
Function(name) == [t |-> "function", n |-> 0, s |-> name]

\* An options object with none of the options set.
NoOptions ==
  [bufferSize |-> Undefined, compression |-> Undefined, graylogHost |-> Undefined,
   graylogPort |-> Undefined, reuseBuffer |-> Undefined, host |-> Undefined,
   version |-> Undefined, transport |-> Undefined, serializer |-> Undefined]

\* No GelfClient has been constructed.
NoGelf ==
  [status |-> "none", host |-> "", version |-> "", transport |-> "",
   serializer |-> "", calls |-> 0]

NoClient ==
  /\ options = NoOptions
  /\ gelf = NoGelf
  /\ sent = <<>>

(***************************************************************************)
(* Bounds of the model.                                                    *)
(***************************************************************************)
MaxBacklogSize == 2      \* maxBacklogSize is drawn from 0..MaxBacklogSize
MaxTcpSends == 4         \* send() calls in one behaviour
MaxConnects == 2         \* connect() calls in one behaviour
MaxCloses == 3           \* close() calls in one behaviour

(***************************************************************************)
(* TcpTransport                                                            *)
(***************************************************************************)

Range(f) == {f[i] : i \in DOMAIN f}

\* JSON.stringify(message): the k-th message of a behaviour is {k}.
Json(k) == <<123, k, 125>>

\* Buffer.from(`${JSON.stringify(message)}\0`)
Frame(k) == Append(Json(k), 0)

TcpConstructor(max) ==
  [backlog |-> <<>>, canAcceptData |-> TRUE, client |-> "client",
   maxBacklogSize |-> max, socket |-> nullSocket]

TcpInit ==
  /\ \E max \in 0..MaxBacklogSize : tcp = TcpConstructor(max)
  /\ tcpSockets = 0
  /\ tcpWritten = <<>>
  /\ tcpNeedDrain = {}
  /\ tcpEnded = <<>>
  /\ tcpCalls = 0
  /\ tcpQueued = <<>>
  /\ tcpDropped = {}
  /\ tcpLive = {}
  /\ tcpCloses = 0
  /\ tcpDiscarded = {}
  /\ errors = <<>>
  /\ thrown = <<>>

\* connect(): a new Socket replaces this.socket; the handlers are registered on it.
TcpConnect ==
  /\ tcpSockets < MaxConnects
  /\ tcpSockets' = tcpSockets + 1
  /\ tcp' = [tcp EXCEPT !.socket = tcpSockets + 1]
  /\ UNCHANGED <<tcpWritten, tcpNeedDrain, tcpEnded, tcpCalls, tcpQueued,
                 tcpDropped, tcpLive, tcpCloses, tcpDiscarded, errors, thrown>>

\* A close() that does not forget the socket (no `this.socket = null`).
TcpCloseKeepsSocket ==
  /\ tcpCloses < MaxCloses
  /\ tcpCloses' = tcpCloses + 1
  /\ IF tcp.socket = nullSocket
       THEN /\ tcp' = [tcp EXCEPT !.client = null]
            /\ UNCHANGED <<tcpEnded, tcpQueued, tcpDiscarded>>
       ELSE /\ tcp' = [tcp EXCEPT !.client = null, !.backlog = nullBacklog]
            /\ tcpEnded' = Append(tcpEnded, tcp.socket)
            /\ tcpQueued' = <<>>
            /\ tcpDiscarded' = tcpDiscarded \cup Range(tcpQueued)
  /\ UNCHANGED <<tcpSockets, tcpWritten, tcpNeedDrain, tcpCalls, tcpDropped,
                 tcpLive, errors, thrown>>

\* A close() that flushes the backlog to the socket before it ends it.
TcpCloseFlushes ==
  /\ tcpCloses < MaxCloses
  /\ tcpCloses' = tcpCloses + 1
  /\ IF tcp.socket = nullSocket
       THEN /\ tcp' = [tcp EXCEPT !.client = null]
            /\ UNCHANGED <<tcpEnded, tcpQueued, tcpDiscarded, tcpWritten>>
       ELSE /\ tcp' = [tcp EXCEPT !.client = null, !.backlog = nullBacklog, !.socket = nullSocket]
            /\ tcpEnded' = Append(tcpEnded, tcp.socket)
            /\ tcpQueued' = <<>>
            /\ tcpDiscarded' = tcpDiscarded \cup Range(tcpQueued)
            /\ tcpWritten' = tcpWritten \o
                  [i \in DOMAIN tcpQueued |->
                     [sock |-> tcp.socket, data |-> tcp.backlog[i], call |-> tcpQueued[i]]]
  /\ UNCHANGED <<tcpSockets, tcpNeedDrain, tcpCalls, tcpDropped, tcpLive, errors, thrown>>

\* close()
TcpClose ==
  /\ tcpCloses < MaxCloses
  /\ tcpCloses' = tcpCloses + 1
  /\ IF tcp.socket = nullSocket
       THEN /\ tcp' = [tcp EXCEPT !.client = null]
            /\ UNCHANGED <<tcpEnded, tcpQueued, tcpDiscarded>>
       ELSE /\ tcp' = [tcp EXCEPT !.client = null, !.backlog = nullBacklog, !.socket = nullSocket]
            /\ tcpEnded' = Append(tcpEnded, tcp.socket)
            /\ tcpQueued' = <<>>
            /\ tcpDiscarded' = tcpDiscarded \cup Range(tcpQueued)
  /\ UNCHANGED <<tcpSockets, tcpWritten, tcpNeedDrain, tcpCalls, tcpDropped,
                 tcpLive, errors, thrown>>

\* A send() that does not look at canAcceptData: it always writes.
SendBranchAlwaysWrite(t) == "write"

\* A send() without the backlog limit: it queues whenever it cannot write.
SendBranchUnbounded(t) ==
  IF t.canAcceptData THEN "write"
  ELSE IF t.backlog = nullBacklog THEN "throw"
  ELSE "push"

\* A send() that queues while the backlog holds maxBacklogSize entries or fewer.
SendBranchOffByOne(t) ==
  IF t.canAcceptData THEN "write"
  ELSE IF t.backlog = nullBacklog THEN "throw"
  ELSE IF Len(t.backlog) <= t.maxBacklogSize THEN "push"
  ELSE "emit"

\* The branch of send() that is taken in state t.
SendBranch(t) ==
  IF t.canAcceptData THEN "write"
  ELSE IF t.backlog = nullBacklog THEN "throw"
  ELSE IF Len(t.backlog) < t.maxBacklogSize THEN "push"
  ELSE "emit"

\* send(message)
TcpSend ==
  /\ tcpCalls < MaxTcpSends
  /\ tcpCalls' = tcpCalls + 1
  /\ tcpLive' = IF tcp.socket = nullSocket THEN tcpLive ELSE tcpLive \cup {tcpCalls + 1}
  /\ LET k == tcpCalls + 1
         msg == Frame(k)
         branch == SendBranch(tcp)
     IN  CASE branch = "write" /\ tcp.socket = nullSocket ->
                \* this.socket.write on null
                /\ thrown' = Append(thrown, "TypeError")
                /\ UNCHANGED <<tcp, tcpWritten, tcpNeedDrain, tcpQueued, tcpDropped, errors>>
           [] branch = "write" /\ tcp.socket # nullSocket ->
                \E ok \in BOOLEAN :
                  /\ tcpWritten' = Append(tcpWritten,
                                          [sock |-> tcp.socket, data |-> msg, call |-> k])
                  /\ tcp' = [tcp EXCEPT !.canAcceptData = ok]
                  /\ tcpNeedDrain' = IF ok THEN tcpNeedDrain
                                     ELSE tcpNeedDrain \cup {tcp.socket}
                  /\ UNCHANGED <<tcpQueued, tcpDropped, errors, thrown>>
           [] branch = "throw" ->
                \* this.backlog.length on null
                /\ thrown' = Append(thrown, "TypeError")
                /\ UNCHANGED <<tcp, tcpWritten, tcpNeedDrain, tcpQueued, tcpDropped, errors>>
           [] branch = "push" ->
                /\ tcp' = [tcp EXCEPT !.backlog = Append(@, msg)]
                /\ tcpQueued' = Append(tcpQueued, k)
                /\ UNCHANGED <<tcpWritten, tcpNeedDrain, tcpDropped, errors, thrown>>
           [] branch = "emit" ->
                /\ tcpDropped' = tcpDropped \cup {k}
                /\ IF tcp.client = null
                     THEN /\ thrown' = Append(thrown, "TypeError")
                          /\ UNCHANGED errors
                     ELSE /\ errors' = Append(errors, "too many messages buffered")
                          /\ UNCHANGED thrown
                /\ UNCHANGED <<tcp, tcpWritten, tcpNeedDrain, tcpQueued>>
  /\ UNCHANGED <<tcpSockets, tcpEnded, tcpCloses, tcpDiscarded>>

\* A drain handler that only sets canAcceptData and leaves the backlog alone.
DrainLoopNone(s, results, i) == s

\* A drain handler with an `if` for the `while`: it writes one entry at most.
DrainLoopOnce(s, results, i) ==
  IF s.backlog = nullBacklog THEN [s EXCEPT !.failed = TRUE]
  ELSE IF Len(s.backlog) = 0 THEN s
  ELSE IF tcp.socket = nullSocket
    THEN [s EXCEPT !.backlog = Tail(@), !.queued = Tail(@), !.failed = TRUE]
  ELSE [s EXCEPT !.backlog = Tail(@),
                 !.queued = Tail(@),
                 !.canAcceptData = results[i],
                 !.written = Append(@, [sock |-> tcp.socket, data |-> Head(s.backlog),
                                        call |-> Head(s.queued)]),
                 !.needDrain = IF results[i] THEN @ ELSE @ \cup {tcp.socket}]

\* A drain loop that does not test canAcceptData: it writes the whole backlog.
RECURSIVE DrainLoopNoStop(_, _, _)
DrainLoopNoStop(s, results, i) ==
  IF s.backlog = nullBacklog THEN [s EXCEPT !.failed = TRUE]
  ELSE IF Len(s.backlog) = 0 THEN s
  ELSE IF tcp.socket = nullSocket
    THEN [s EXCEPT !.backlog = Tail(@), !.queued = Tail(@), !.failed = TRUE]
  ELSE DrainLoopNoStop(
         [s EXCEPT !.backlog = Tail(@),
                   !.queued = Tail(@),
                   !.canAcceptData = results[i],
                   !.written = Append(@, [sock |-> tcp.socket, data |-> Head(s.backlog),
                                          call |-> Head(s.queued)]),
                   !.needDrain = IF results[i] THEN @ ELSE @ \cup {tcp.socket}],
         results, i + 1)

\* A drain loop that takes the newest backlog entry (pop) instead of the oldest.
RECURSIVE DrainLoopPop(_, _, _)
DrainLoopPop(s, results, i) ==
  IF ~s.canAcceptData THEN s
  ELSE IF s.backlog = nullBacklog THEN [s EXCEPT !.failed = TRUE]
  ELSE IF Len(s.backlog) = 0 THEN s
  ELSE IF tcp.socket = nullSocket
    THEN [s EXCEPT !.failed = TRUE]
  ELSE LET n == Len(s.backlog)
       IN  DrainLoopPop(
             [s EXCEPT !.backlog = SubSeq(@, 1, n - 1),
                       !.queued = SubSeq(@, 1, n - 1),
                       !.canAcceptData = results[i],
                       !.written = Append(@, [sock |-> tcp.socket, data |-> s.backlog[n],
                                              call |-> s.queued[n]]),
                       !.needDrain = IF results[i] THEN @ ELSE @ \cup {tcp.socket}],
             results, i + 1)

\* The while loop of the 'drain' handler, run on the loop state
\* s = [backlog, queued, canAcceptData, written, needDrain, failed]; results[i] is
\* what the i-th socket.write() of the loop returns.
RECURSIVE DrainLoop(_, _, _)
DrainLoop(s, results, i) ==
  IF ~s.canAcceptData THEN s
  ELSE IF s.backlog = nullBacklog THEN [s EXCEPT !.failed = TRUE]
  ELSE IF Len(s.backlog) = 0 THEN s
  ELSE IF tcp.socket = nullSocket
    THEN [s EXCEPT !.backlog = Tail(@), !.queued = Tail(@), !.failed = TRUE]
  ELSE DrainLoop(
         [s EXCEPT !.backlog = Tail(@),
                   !.queued = Tail(@),
                   !.canAcceptData = results[i],
                   !.written = Append(@, [sock |-> tcp.socket, data |-> Head(s.backlog),
                                          call |-> Head(s.queued)]),
                   !.needDrain = IF results[i] THEN @ ELSE @ \cup {tcp.socket}],
         results, i + 1)

\* The 'drain' event of socket sock.
TcpDrain(sock) ==
  /\ sock \in tcpNeedDrain
  /\ \E results \in [1..(IF tcp.backlog = nullBacklog THEN 0 ELSE Len(tcp.backlog)) -> BOOLEAN] :
       LET s0 == [backlog |-> tcp.backlog, queued |-> tcpQueued, canAcceptData |-> TRUE,
                  written |-> tcpWritten, needDrain |-> tcpNeedDrain \ {sock},
                  failed |-> FALSE]
           s1 == DrainLoop(s0, results, 1)
       IN  /\ tcp' = [tcp EXCEPT !.backlog = s1.backlog, !.canAcceptData = s1.canAcceptData]
           /\ tcpQueued' = s1.queued
           /\ tcpWritten' = s1.written
           /\ tcpNeedDrain' = s1.needDrain
           /\ thrown' = IF s1.failed THEN Append(thrown, "TypeError") ELSE thrown
  /\ UNCHANGED <<tcpSockets, tcpEnded, tcpCalls, tcpDropped, tcpLive, tcpCloses,
                 tcpDiscarded, errors>>

TcpNext ==
  \/ TcpConnect /\ UNCHANGED udpVars
  \/ TcpClose /\ UNCHANGED udpVars
  \/ TcpSend /\ UNCHANGED udpVars
  \/ \E sock \in 1..MaxConnects : TcpDrain(sock) /\ UNCHANGED udpVars

\* The stream transport alone: no UdpTransport exists.
NoUdp ==
  /\ udp = [bufferSize |-> 0, client |-> null, compression |-> "none",
            socket |-> nullSocket, reuseBuffer |-> TRUE]
  /\ udpSockets = 0
  /\ udpClosed = <<>>
  /\ udpCloses = 0
  /\ udpTask = <<>>
  /\ udpBufs = <<>>
  /\ udpWire = <<>>
  /\ udpSentOn = nullSocket
  /\ udpInflight = {}
  /\ raised = <<>>
  /\ NoClient

InitTcp == TcpInit /\ NoUdp

SpecTcp == InitTcp /\ [][TcpNext]_vars

\* A socket whose write() returned false emits 'drain' once it has flushed:
\* the event loop delivers every pending 'drain' event.
DrainDelivered == \E sock \in 1..MaxConnects : TcpDrain(sock) /\ UNCHANGED udpVars

SpecTcpLive == InitTcp /\ [][TcpNext]_vars /\ WF_vars(DrainDelivered)

(***************************************************************************)
(* Claims about TcpTransport                                               *)
(***************************************************************************)
WrittenCalls == {tcpWritten[i].call : i \in DOMAIN tcpWritten}

\* C1: the messages written to the socket are the send() calls in call order,
\* each at most once and each as its own frame; and until close() the calls
\* that are not written are exactly the overflow-dropped and the still-queued.
C1_WrittenInCallOrder ==
  /\ \A i, j \in DOMAIN tcpWritten :
        i < j => tcpWritten[i].call < tcpWritten[j].call
  /\ \A i \in DOMAIN tcpWritten : tcpWritten[i].data = Frame(tcpWritten[i].call)
  /\ tcp.backlog # nullBacklog =>
        /\ WrittenCalls = tcpLive \ (tcpDropped \cup Range(tcpQueued))
        /\ WrittenCalls \cap Range(tcpQueued) = {}
        /\ tcp.backlog = [i \in DOMAIN tcpQueued |-> Frame(tcpQueued[i])]

\* A drained message (2), written after a direct write (1) and before a later
\* direct write (4), with call 3 dropped on overflow.
C1_Witness ==
  /\ tcp.backlog # nullBacklog
  /\ [i \in DOMAIN tcpWritten |-> tcpWritten[i].call] = <<1, 2, 4>>
  /\ tcpDropped = {3}

\* C10: before close() the backlog never holds more than maxBacklogSize
\* messages, for every maxBacklogSize >= 0.
C10_BacklogBounded ==
  tcp.backlog # nullBacklog => Len(tcp.backlog) <= tcp.maxBacklogSize

\* A full backlog of the largest size, after a message was dropped for it.
C10_Witness ==
  /\ tcp.backlog # nullBacklog
  /\ tcp.maxBacklogSize = MaxBacklogSize
  /\ Len(tcp.backlog) = tcp.maxBacklogSize
  /\ tcpDropped # {}

\* With maxBacklogSize 0 a backpressured send() is dropped, nothing is queued.
C10_WitnessZero ==
  /\ tcp.maxBacklogSize = 0
  /\ tcp.backlog = <<>>
  /\ ~tcp.canAcceptData
  /\ tcpDropped # {}

\* A step that is one send() call.
IsSend == tcpCalls' = tcpCalls + 1

\* A step that is one close() call.
IsClose == tcpCloses' = tcpCloses + 1

\* A step that is one 'drain' event.
IsDrain ==
  /\ tcpCalls' = tcpCalls
  /\ tcpCloses' = tcpCloses
  /\ tcpSockets' = tcpSockets

\* The transport is backpressured with a full backlog (and was not closed).
BacklogFull ==
  /\ ~tcp.canAcceptData
  /\ tcp.client # null
  /\ tcp.backlog # nullBacklog
  /\ Len(tcp.backlog) = tcp.maxBacklogSize

C11_Step ==
  (IsSend /\ BacklogFull) =>
     /\ tcpWritten' = tcpWritten
     /\ tcp' = tcp
     /\ tcpQueued' = tcpQueued
     /\ errors' = Append(errors, "too many messages buffered")
     /\ thrown' = thrown
     /\ tcpDropped' = tcpDropped \cup {tcpCalls'}

\* C11: a send() made while the transport is backpressured and the backlog
\* holds maxBacklogSize messages writes nothing, queues nothing, emits exactly
\* one 'too many messages buffered' error and leaves the backlog and
\* canAcceptData as they were; the dropped message is never written or queued
\* later either.
C11_OverflowDrops ==
  /\ [][C11_Step]_vars
  /\ [](tcpDropped \cap (WrittenCalls \cup Range(tcpQueued)) = {})

\* Call 3 was dropped at a full backlog of one message, and the queued message
\* and a later one were written afterwards.
C11_Witness ==
  /\ tcp.maxBacklogSize = 1
  /\ tcpDropped = {3}
  /\ errors = <<"too many messages buffered">>
  /\ WrittenCalls = {1, 2, 4}

C12_Step ==
  /\ (IsSend /\ tcp.canAcceptData /\ tcp.socket # nullSocket) =>
        /\ tcpWritten' = Append(tcpWritten, [sock |-> tcp.socket, data |-> Frame(tcpCalls'),
                                              call |-> tcpCalls'])
        /\ tcp'.canAcceptData <=> (tcpNeedDrain' = {})
        /\ ~tcp'.canAcceptData => tcpNeedDrain' = {tcp.socket}
        /\ tcp'.backlog = tcp.backlog
  /\ (IsSend /\ tcpNeedDrain # {}) =>
        /\ tcpWritten' = tcpWritten
        /\ tcp.backlog # nullBacklog =>
              \/ tcpQueued' = Append(tcpQueued, tcpCalls')
              \/ tcpCalls' \in tcpDropped'

\* C12: a send() made while canAcceptData is true writes at once and stores
\* what that write returned in canAcceptData; from a write that returned false
\* until the 'drain' event no send() writes to the socket (before close() the
\* message is queued or dropped).
C12_Backpressure ==
  /\ [][C12_Step]_vars
  /\ [](tcpNeedDrain # {} => ~tcp.canAcceptData)

\* Write 1 returned false, call 2 was queued, call 3 was dropped, and no
\* 'drain' has arrived.
C12_Witness ==
  /\ tcpNeedDrain # {}
  /\ [i \in DOMAIN tcpWritten |-> tcpWritten[i].call] = <<1>>
  /\ tcpQueued = <<2>>
  /\ tcpDropped = {3}

\* The number of socket.write() calls a step makes.
NewWrites == Len(tcpWritten') - Len(tcpWritten)

C13_Step ==
  (IsDrain /\ tcp.backlog # nullBacklog) =>
     LET n == NewWrites
         len == Len(tcp.backlog)
     IN  /\ n \in 0..len
         /\ len > 0 => n >= 1
         /\ \A i \in 1..n :
               tcpWritten'[Len(tcpWritten) + i] =
                 [sock |-> tcp.socket, data |-> tcp.backlog[i], call |-> tcpQueued[i]]
         /\ SubSeq(tcpWritten', 1, Len(tcpWritten)) = tcpWritten
         /\ tcp'.backlog = SubSeq(tcp.backlog, n + 1, len)
         /\ tcpQueued' = SubSeq(tcpQueued, n + 1, len)
         /\ n < len => ~tcp'.canAcceptData
         /\ tcp'.canAcceptData <=> (tcpNeedDrain' = {})
         /\ tcp'.canAcceptData => tcp'.backlog = <<>>
         /\ thrown' = thrown

\* C13: the 'drain' handler writes the backlog from its head, one entry per
\* write, and stops at the first write that returns false: the entries written
\* are a prefix of the backlog, the rest stays queued in its order, a rest is
\* left only when canAcceptData ended false, and when no write returned false
\* the backlog is empty and canAcceptData is true.
C13_DrainFifo == [][C13_Step]_vars

\* A drain that wrote the head of a backlog of two and stopped on a write
\* that returned false, leaving the second entry queued.
C13_Witness ==
  /\ [i \in DOMAIN tcpWritten |-> tcpWritten[i].call] = <<1, 2>>
  /\ tcpQueued = <<3>>
  /\ tcp.backlog = <<Frame(3)>>
  /\ ~tcp.canAcceptData
  /\ tcpCalls = 3

\* C14: between handlers, canAcceptData true implies an empty backlog (until
\* close() sets the backlog to null): messages are queued only while the
\* transport does not accept.
C14_AcceptingMeansEmpty ==
  (tcp.canAcceptData /\ tcp.backlog # nullBacklog) => tcp.backlog = <<>>

\* Accepting again with an empty backlog after two queued messages were
\* drained (call 4 had been dropped at the full backlog).
C14_Witness ==
  /\ tcp.canAcceptData
  /\ tcp.backlog = <<>>
  /\ tcp.maxBacklogSize = 2
  /\ [i \in DOMAIN tcpWritten |-> tcpWritten[i].call] = <<1, 2, 3>>
  /\ tcpDropped = {4}

\* A backlog of two while the transport does not accept.
C14_WitnessQueued ==
  /\ ~tcp.canAcceptData
  /\ tcp.backlog # nullBacklog
  /\ Len(tcp.backlog) = 2

C15_Step ==
  (IsClose /\ tcp.backlog # nullBacklog /\ tcp.backlog # <<>>) =>
     /\ tcpWritten' = tcpWritten
     /\ errors' = errors
     /\ thrown' = thrown
     /\ tcp'.backlog = nullBacklog
     /\ tcpDiscarded' = tcpDiscarded \cup Range(tcpQueued)
     /\ tcpEnded' = Append(tcpEnded, tcp.socket)

\* C15: close() with a non-empty backlog writes nothing, emits no error and
\* raises nothing, and none of the messages that were queued at that moment is
\* ever written to a socket afterwards.
C15_CloseDiscards ==
  /\ [][C15_Step]_vars
  /\ [](tcpDiscarded \cap WrittenCalls = {})

\* Message 2 was queued when close() ran; the transport was connected again
\* and wrote message 3, and message 2 was never written.
C15_Witness ==
  /\ tcpDiscarded = {2}
  /\ [i \in DOMAIN tcpWritten |-> tcpWritten[i].call] = <<1, 3>>
  /\ errors = <<>>

\* close() has released the socket and no connect() was made since.
Closed ==
  /\ tcp.socket = nullSocket
  /\ tcp.backlog = nullBacklog

C16_Step ==
  (Closed /\ IsDrain) =>
     /\ tcp' = tcp
     /\ tcpWritten' = tcpWritten
     /\ thrown' = thrown

\* C16: a 'drain' event that the old socket delivers after close() is a no-op:
\* it leaves the transport closed as it was (canAcceptData included), writes
\* nothing and raises nothing.
C16_DrainAfterCloseNoOp == [][C16_Step]_vars

C17_Step ==
  (IsClose /\ tcpCloses >= 1 /\ tcp.socket = nullSocket) =>
     /\ tcp' = tcp
     /\ UNCHANGED <<tcpEnded, tcpWritten, tcpNeedDrain, tcpQueued, errors, thrown>>

\* C17: a close() made when a close() has already released the socket (or
\* when close() was called and no socket was ever made) changes no field,
\* calls nothing on a socket and raises nothing, and every close() is
\* silent; no socket is ended more than once.
C17_CloseIdempotent ==
  /\ [][C17_Step]_vars
  /\ [][IsClose => (thrown' = thrown /\ errors' = errors)]_vars
  /\ [](\A i, j \in DOMAIN tcpEnded : i # j => tcpEnded[i] # tcpEnded[j])

\* Three close() calls on a transport whose one socket was ended once.
C17_Witness ==
  /\ tcpCloses = 3
  /\ tcpSockets = 1
  /\ tcpEnded = <<1>>
  /\ tcp.socket = nullSocket

\* Two close() calls before any connect().
C17_WitnessBeforeConnect ==
  /\ tcpCloses = 2
  /\ tcpSockets = 0
  /\ tcp.backlog = <<>>
  /\ tcp.client = null

\* C19: in every lifecycle state (before connect(), connected, backpressured,
\* closed) send() returns without raising: no send() step adds an exception,
\* a failure only adds to the errors emitted on the client.
C19_SendNeverRaises == [][IsSend => thrown' = thrown]_vars

\* C20: when every write that returned false is followed by its 'drain' event,
\* every message that send() put in the backlog is eventually written to the
\* socket, unless close() is called.
C20_QueuedEventuallyWritten ==
  \A k \in 1..MaxTcpSends :
     (k \in Range(tcpQueued)) ~> (k \in WrittenCalls \/ tcpCloses > 0)

\* Message 2 was queued (message 3 was dropped at the backlog it filled) and
\* was written by a later drain; close() was never called.
C20_Witness ==
  /\ tcpCloses = 0
  /\ tcp.maxBacklogSize = 1
  /\ tcpDropped = {3}
  /\ [i \in DOMAIN tcpWritten |-> tcpWritten[i].call] = <<1, 2>>
  /\ tcp.backlog = <<>>


(***************************************************************************)
(* UdpTransport                                                            *)
(***************************************************************************)
kChunkHeaderSize == 12
kMagicByte0 == 30
kMagicByte1 == 15
kMaxChunks == 128
kMessageIdBytes == 8
kOffsetMagicByte0 == 0
kOffsetMagicByte1 == 1
kOffsetMessageId == 2
kOffsetSequenceNumber == 10
kOffsetSequenceCount == 11
kOffsetPayload == 12

\* Bounds of the datagram model.
MaxBufferSize == 18      \* bufferSize is drawn from 13..MaxBufferSize
MaxJsonLength == 22      \* JSON lengths are drawn from 1..MaxJsonLength
MaxUdpConnects == 1      \* connect() calls in one behaviour
MaxUdpCloses == 4        \* counted close() calls in one behaviour
MaxSocketErrors == 2     \* 'error' events of sockets in one behaviour

Min(a, b) == IF a < b THEN a ELSE b

\* Math.ceil(a / b) for positive integers.
Ceil(a, b) == (a + b - 1) \div b

\* JSON.stringify(message) of a message that serializes to n bytes. send() never
\* looks at the bytes, so each byte is tagged with its position: a byte that is
\* lost, repeated or moved shows.
JsonOfLength(n) == [i \in 1..n |-> i % 256]

\* The configurations and messages tried, as <<bufferSize, JSON length>>: every
\* bufferSize with every short message, and the smallest bufferSize with the
\* messages at the kMaxChunks edge (128 chunks, and one byte too many).
UdpInputs ==
  ((kChunkHeaderSize + 1)..MaxBufferSize) \X (1..MaxJsonLength)
    \cup {<<kChunkHeaderSize + 1, kMaxChunks>>, <<kChunkHeaderSize + 1, kMaxChunks + 1>>}

\* Zlib.deflate, which is not code of this repository: a zlib header and a body
\* that differs from its input in every byte and in length.
Deflate(json) == <<120, 156>> \o [i \in 1..Len(json) |-> 255 - json[i]]

\* Crypto.randomBytes(8): the values tried.
MessageIds == {[i \in 1..kMessageIdBytes |-> 16 * x + i] : x \in {1, 2}}

\* Buffer.allocUnsafe(size) holds whatever the memory held: the model fills a
\* new buffer with one arbitrary byte g.
GarbageBytes == {0, 255}
AllocUnsafe(size, g) == [i \in 1..size |-> g]

\* buf[off] = v on a Buffer (a Uint8Array store).
SetByte(buf, off, v) ==
  IF off < Len(buf) THEN [buf EXCEPT ![off + 1] = v % 256] ELSE buf

\* src.copy(target, targetStart, sourceStart, sourceEnd): copies what fits.
BufferCopy(src, target, targetStart, sourceStart, sourceEnd) ==
  LET n == Min(Min(sourceEnd, Len(src)) - sourceStart, Len(target) - targetStart)
  IN  [i \in 1..Len(target) |->
         IF i > targetStart /\ i <= targetStart + n
           THEN src[sourceStart + (i - targetStart)]
           ELSE target[i]]

\* const maxDataPerChunk, numChunks, totalHeaderSize, chunkSize of send().
MaxDataPerChunk(bufferSize) == bufferSize - kChunkHeaderSize
\* A chunk count that rounds down (a division without Math.ceil).
NumChunksFloor(byteLength, bufferSize) == byteLength \div MaxDataPerChunk(bufferSize)
NumChunks(byteLength, bufferSize) == Ceil(byteLength, MaxDataPerChunk(bufferSize))
ChunkSizeFloor(byteLength, numChunks) ==
  (byteLength + numChunks * kChunkHeaderSize) \div numChunks
ChunkSize(byteLength, numChunks) ==
  Ceil(byteLength + numChunks * kChunkHeaderSize, numChunks)

\* A header without the SequenceCount byte.
ChunkHeaderNoCount(buf, msgId, numChunks) ==
  BufferCopy(msgId,
             SetByte(SetByte(buf, kOffsetMagicByte0, kMagicByte0),
                     kOffsetMagicByte1, kMagicByte1),
             kOffsetMessageId, 0, Len(msgId))

\* The header bytes send() writes into a new chunk buffer before the loop body
\* or _send() adds the sequence number.
ChunkHeader(buf, msgId, numChunks) ==
  SetByte(BufferCopy(msgId,
                     SetByte(SetByte(buf, kOffsetMagicByte0, kMagicByte0),
                             kOffsetMagicByte1, kMagicByte1),
                     kOffsetMessageId, 0, Len(msgId)),
          kOffsetSequenceCount, numChunks)

\* What _send(data, chunk, sequenceId, bytesToSend) does to the chunk buffer
\* before it hands it to socket.send().
ChunkSend(data, chunk, sequenceId, bytesToSend) ==
  LET bytesToCopy == Min(bytesToSend, Len(chunk) - kChunkHeaderSize)
      dataStart == Len(data) - bytesToSend
      dataEnd == dataStart + bytesToCopy
  IN  [chunk |-> BufferCopy(data, SetByte(chunk, kOffsetSequenceNumber, sequenceId),
                            kOffsetPayload, dataStart, dataEnd),
       bytesToCopy |-> bytesToCopy]

\* The buffer one iteration of the reuseBuffer = false loop of send() builds.
LoopChunk(msg, sequenceId, numChunks, chunkSize, maxDataPerChunk, msgId, g) ==
  LET msgStart == sequenceId * maxDataPerChunk
      msgEnd == Min(Len(msg), msgStart + maxDataPerChunk)
  IN  BufferCopy(msg,
                 SetByte(ChunkHeader(AllocUnsafe(chunkSize, g), msgId, numChunks),
                         kOffsetSequenceNumber, sequenceId),
                 kOffsetPayload, msgStart, msgEnd)

UdpConstructor(bufferSize, compression, reuseBuffer) ==
  [bufferSize |-> bufferSize, client |-> "client", compression |-> compression,
   socket |-> nullSocket, reuseBuffer |-> reuseBuffer]

\* A send() call that has not been made yet, with the message it will be given.
NewTask(json) ==
  [pc |-> "idle", json |-> json, kind |-> "none", msg |-> <<>>, numChunks |-> 0,
   chunkSize |-> 0, chunk |-> 0, sequenceId |-> 0, bytesToSend |-> 0,
   bytesToCopy |-> 0, gotErr |-> FALSE]

UdpIdle ==
  /\ udpSockets = 0
  /\ udpClosed = <<>>
  /\ udpCloses = 0
  /\ udpBufs = <<>>
  /\ udpWire = <<>>
  /\ udpSentOn = nullSocket
  /\ udpInflight = {}
  /\ raised = <<>>
  /\ NoClient
  /\ errors = <<>>
  /\ thrown = <<>>

\* One transport of any configuration that is given one message.
UdpInit ==
  /\ \E in \in UdpInputs, compression \in {"none", "zlib"}, reuseBuffer \in BOOLEAN :
       /\ udp = UdpConstructor(in[1], compression, reuseBuffer)
       /\ udpTask = <<NewTask(JsonOfLength(in[2]))>>
  /\ UdpIdle

\* connect()
UdpConnect ==
  /\ udpSockets < MaxUdpConnects
  /\ udpSockets' = udpSockets + 1
  /\ udp' = [udp EXCEPT !.socket = udpSockets + 1]
  /\ UNCHANGED <<udpClosed, udpTask, udpBufs, udpWire, udpSentOn, udpInflight, errors,
                 thrown>>

\* A close() that clears this.client before it tests this.socket.
UdpCloseClearsClient ==
  /\ IF udp.socket = nullSocket
       THEN /\ udp' = [udp EXCEPT !.client = null]
            /\ UNCHANGED udpClosed
       ELSE /\ udp' = [udp EXCEPT !.client = null, !.socket = nullSocket]
            /\ udpClosed' = Append(udpClosed, udp.socket)
  /\ UNCHANGED <<udpSockets, udpTask, udpBufs, udpWire, udpSentOn, udpInflight, errors,
                 thrown>>

\* close()
UdpClose ==
  /\ IF udp.socket = nullSocket
       THEN UNCHANGED <<udp, udpClosed>>
       ELSE /\ udp' = [udp EXCEPT !.client = null, !.socket = nullSocket]
            /\ udpClosed' = Append(udpClosed, udp.socket)
  /\ UNCHANGED <<udpSockets, udpTask, udpBufs, udpWire, udpSentOn, udpInflight, errors,
                 thrown>>

\* A _send() that does not wait for the callback before the next chunk: it
\* sends the chunk after this one from the same buffer in the same turn.
ChunkSendsEager(data, chunk, sequenceId, bytesToSend) ==
  LET r == ChunkSend(data, chunk, sequenceId, bytesToSend)
      one == [chunk |-> r.chunk, sequenceId |-> sequenceId,
              bytesToSend |-> bytesToSend, bytesToCopy |-> r.bytesToCopy]
      rest == bytesToSend - r.bytesToCopy
      r2 == ChunkSend(data, r.chunk, sequenceId + 1, rest)
      two == [chunk |-> r2.chunk, sequenceId |-> sequenceId + 1,
              bytesToSend |-> rest, bytesToCopy |-> r2.bytesToCopy]
  IN  IF rest > 0 THEN <<one, two>> ELSE <<one>>

\* The socket.send() calls one _send(data, chunk, sequenceId, bytesToSend) call
\* makes before it returns, each with the bytes the chunk buffer holds at the
\* call: one, since the next _send() is made in the callback.
ChunkSends(data, chunk, sequenceId, bytesToSend) ==
  LET r == ChunkSend(data, chunk, sequenceId, bytesToSend)
  IN  <<[chunk |-> r.chunk, sequenceId |-> sequenceId,
         bytesToSend |-> bytesToSend, bytesToCopy |-> r.bytesToCopy]>>

\* The state after _send() is called for task t on chunk buffer c of bufs, from
\* send() or from the completion callback of the previous chunk:
\* [task, bufs, wire, inflight, threw]. this.socket.send on null raises.
CallChunkSend(t, bufs, c, sequenceId, bytesToSend, task, inflight) ==
  LET ss == ChunkSends(task.msg, bufs[c], sequenceId, bytesToSend)
      last == IF udp.socket = nullSocket THEN ss[1] ELSE ss[Len(ss)]
  IN  [task |-> [task EXCEPT !.chunk = c, !.sequenceId = last.sequenceId,
                             !.bytesToSend = last.bytesToSend,
                             !.bytesToCopy = last.bytesToCopy],
       bufs |-> [bufs EXCEPT ![c] = last.chunk],
       wire |-> IF udp.socket = nullSocket THEN udpWire
                ELSE udpWire \o [i \in 1..Len(ss) |->
                                   [task |-> t, buf |-> c,
                                    bytes |-> ss[i].chunk, cb |-> TRUE]],
       inflight |-> IF udp.socket = nullSocket THEN inflight
                    ELSE inflight \cup {Len(udpWire) + i : i \in 1..Len(ss)},
       threw |-> udp.socket = nullSocket]

\* A size test that chunks a message of exactly bufferSize bytes.
FitsUnchunkedStrict(byteLength, bufferSize) == byteLength < bufferSize

\* if (byteLength <= this.bufferSize)
FitsUnchunked(byteLength, bufferSize) == byteLength <= bufferSize

\* A limit test that lets one chunk too many through.
TooLargeOffByOne(numChunks) == numChunks > kMaxChunks + 1

\* if (numChunks > kMaxChunks)
TooLarge(numChunks) == numChunks > kMaxChunks

\* send() from the byteLength test to its return or to `await randomBytes`, for
\* call t of the calls made so far (tasks).
SizeCheck(tasks, t, msg) ==
  LET byteLength == Len(msg)
      numChunks == NumChunks(byteLength, udp.bufferSize)
      task == [tasks[t] EXCEPT !.msg = msg]
  IN  IF FitsUnchunked(byteLength, udp.bufferSize)
        THEN \* Chunking is not required.
             /\ IF udp.socket = nullSocket
                  THEN /\ udpTask' = [tasks EXCEPT ![t] =
                            [task EXCEPT !.pc = "rejected", !.kind = "unchunked"]]
                       /\ UNCHANGED <<udpWire, udpInflight>>
                  ELSE /\ udpTask' = [tasks EXCEPT ![t] =
                            [task EXCEPT !.pc = "done", !.kind = "unchunked"]]
                       /\ udpWire' = Append(udpWire, [task |-> t,
                                                      buf |-> 0, bytes |-> msg, cb |-> FALSE])
                       /\ udpInflight' = udpInflight \cup {Len(udpWire) + 1}
             /\ UNCHANGED <<udpBufs, errors, thrown>>
      ELSE IF TooLarge(numChunks)
        THEN /\ IF udp.client = null
                  THEN /\ udpTask' = [tasks EXCEPT ![t] =
                            [task EXCEPT !.pc = "rejected", !.kind = "oversize"]]
                       /\ UNCHANGED errors
                  ELSE /\ udpTask' = [tasks EXCEPT ![t] =
                            [task EXCEPT !.pc = "done", !.kind = "oversize"]]
                       /\ errors' = Append(errors, "message too large")
             /\ UNCHANGED <<udpBufs, udpWire, udpInflight, thrown>>
      ELSE /\ udpTask' = [tasks EXCEPT ![t] =
                [task EXCEPT !.pc = "randomBytes", !.kind = "chunked",
                             !.numChunks = numChunks,
                             !.chunkSize = ChunkSize(byteLength, numChunks)]]
           /\ UNCHANGED <<udpBufs, udpWire, udpInflight, errors, thrown>>

\* send(message) from its first line to its first await, for call t of tasks.
UdpSendFrom(tasks, t) ==
  /\ IF udp.compression = "zlib"
       THEN /\ udpTask' = [tasks EXCEPT ![t].pc = "deflate"]
            /\ UNCHANGED <<udpBufs, udpWire, udpInflight, errors, thrown>>
       ELSE SizeCheck(tasks, t, tasks[t].json)
  /\ udpSentOn' = IF udpWire' = udpWire THEN udpSentOn ELSE udp.socket
  /\ UNCHANGED <<udp, udpSockets, udpClosed>>

\* send(message) is called: it runs to its first await.
UdpSend(t) ==
  /\ udpTask[t].pc = "idle"
  /\ \A u \in 1..(t - 1) : udpTask[u].pc # "idle"
  /\ UdpSendFrom(udpTask, t)

\* `await deflate(json)` returns.
UdpDeflated(t) ==
  /\ udpTask[t].pc = "deflate"
  /\ SizeCheck(udpTask, t, Deflate(udpTask[t].json))
  /\ udpSentOn' = IF udpWire' = udpWire THEN udpSentOn ELSE udp.socket
  /\ UNCHANGED <<udp, udpSockets, udpClosed>>

\* A loop that uses one buffer for every chunk.
LoopBufferShared(first, sequenceId) == first

\* The buffer the iteration for sequenceId of the reuseBuffer = false loop
\* allocates, when `first` is the next free buffer: a new one each time.
LoopBuffer(first, sequenceId) == first + sequenceId

\* `await randomBytes(kMessageIdBytes)` returns msgId: the rest of send().
UdpRandomBytes(t) ==
  /\ udpTask[t].pc = "randomBytes"
  /\ \E msgId \in MessageIds, g \in GarbageBytes :
       LET task == udpTask[t]
           n == task.numChunks
           first == Len(udpBufs) + 1
       IN  IF udp.reuseBuffer
             THEN LET e == CallChunkSend(t,
                             Append(udpBufs,
                                    ChunkHeader(AllocUnsafe(task.chunkSize, g), msgId, n)),
                             first, 0, Len(task.msg), task, udpInflight)
                  IN  /\ udpTask' = [udpTask EXCEPT ![t] =
                           [e.task EXCEPT !.pc = IF e.threw THEN "rejected" ELSE "sending"]]
                      /\ udpBufs' = e.bufs
                      /\ udpWire' = e.wire
                      /\ udpInflight' = e.inflight
                      /\ UNCHANGED <<errors, thrown>>
             ELSE LET made == [i \in 1..n |->
                                 LoopChunk(task.msg, i - 1, n, task.chunkSize,
                                           MaxDataPerChunk(udp.bufferSize), msgId, g)]
                  IN  IF udp.socket = nullSocket
                        THEN \* the first this.socket.send raises
                             /\ udpTask' = [udpTask EXCEPT ![t].pc = "rejected"]
                             /\ udpBufs' = Append(udpBufs, made[1])
                             /\ UNCHANGED <<udpWire, udpInflight, errors, thrown>>
                        ELSE /\ udpTask' = [udpTask EXCEPT ![t].pc = "done"]
                             /\ udpBufs' = udpBufs \o made
                             /\ udpWire' = udpWire \o
                                  [i \in 1..n |-> [task |-> t,
                                                   buf |-> LoopBuffer(first, i - 1),
                                                   bytes |-> made[i], cb |-> FALSE]]
                             /\ udpInflight' = udpInflight \cup
                                  {Len(udpWire) + i : i \in 1..n}
                             /\ UNCHANGED <<errors, thrown>>
  /\ udpSentOn' = IF udpWire' = udpWire THEN udpSentOn ELSE udp.socket
  /\ UNCHANGED <<udp, udpSockets, udpClosed>>

\* A sequence counter that all send() calls share: the number of datagrams
\* handed to the socket so far.
NextSequenceIdShared(sequenceId, wire) == Len(wire)

\* `sequenceId + 1` in the callback of _send(): sequenceId is a parameter of
\* the _send() call the callback belongs to.
NextSequenceId(sequenceId, wire) == sequenceId + 1

\* A callback that reports the error and then carries on with the next chunk.
ContinuesAfterError(err, remainingBytes) == remainingBytes > 0

\* Whether the callback of _send() calls _send() for the next chunk: it returns
\* after an error, and after the last chunk there is nothing left.
Continues(err, remainingBytes) == ~err /\ remainingBytes > 0

\* The write udpWire[w] completes, with or without an error; a task's writes
\* complete in the order they were handed to the socket. A write that was given
\* a callback (the reuseBuffer = true path) runs it.
UdpSendDone(w, err) ==
  /\ w \in udpInflight
  /\ \A v \in udpInflight : udpWire[v].task = udpWire[w].task => w <= v
  /\ LET t == udpWire[w].task
         task == [udpTask[t] EXCEPT !.gotErr = @ \/ err]
         remainingBytes == task.bytesToSend - task.bytesToCopy
         emitRaises == err /\ udp.client = null
         e == CallChunkSend(t, udpBufs, task.chunk,
                            NextSequenceId(task.sequenceId, udpWire),
                            remainingBytes, task, udpInflight \ {w})
     IN  IF ~udpWire[w].cb
           THEN /\ ~err
                /\ udpInflight' = udpInflight \ {w}
                /\ UNCHANGED <<udpTask, udpBufs, udpWire, errors, thrown>>
           ELSE /\ errors' = IF err /\ ~emitRaises THEN Append(errors, "send error")
                             ELSE errors
                /\ IF ~emitRaises /\ Continues(err, remainingBytes)
                     THEN /\ udpTask' = [udpTask EXCEPT ![t] =
                               [e.task EXCEPT !.pc = IF e.threw THEN "crashed"
                                                     ELSE "sending"]]
                          /\ udpBufs' = e.bufs
                          /\ udpWire' = e.wire
                          /\ udpInflight' = e.inflight
                          /\ thrown' = IF e.threw THEN Append(thrown, "TypeError")
                                       ELSE thrown
                     ELSE /\ udpTask' = [udpTask EXCEPT ![t] =
                               [task EXCEPT !.pc = IF emitRaises THEN "crashed"
                                                   ELSE IF err THEN "failed"
                                                   ELSE "done"]]
                          /\ udpInflight' = udpInflight \ {w}
                          /\ thrown' = IF emitRaises THEN Append(thrown, "TypeError")
                                       ELSE thrown
                          /\ UNCHANGED <<udpBufs, udpWire>>
  /\ udpSentOn' = IF udpWire' = udpWire THEN udpSentOn ELSE udp.socket
  /\ UNCHANGED <<udp, udpSockets, udpClosed>>

UdpNext ==
  \/ UdpConnect /\ UNCHANGED <<tcpVars, udpCloses, raised>>
  \/ UdpClose /\ UNCHANGED <<tcpVars, udpCloses, raised>>
  \/ \E t \in DOMAIN udpTask : UdpSend(t) /\ UNCHANGED <<tcpVars, udpCloses, raised>>
  \/ \E t \in DOMAIN udpTask : UdpDeflated(t) /\ UNCHANGED <<tcpVars, udpCloses, raised>>
  \/ \E t \in DOMAIN udpTask : UdpRandomBytes(t) /\ UNCHANGED <<tcpVars, udpCloses, raised>>
  \/ \E w \in DOMAIN udpWire, err \in BOOLEAN :
       UdpSendDone(w, err) /\ UNCHANGED <<tcpVars, udpCloses, raised>>

\* The datagram transport alone: no TcpTransport exists.
NoTcp ==
  /\ tcp = TcpConstructor(0)
  /\ tcpSockets = 0
  /\ tcpWritten = <<>>
  /\ tcpNeedDrain = {}
  /\ tcpEnded = <<>>
  /\ tcpCalls = 0
  /\ tcpQueued = <<>>
  /\ tcpDropped = {}
  /\ tcpLive = {}
  /\ tcpCloses = 0
  /\ tcpDiscarded = {}

InitUdp == UdpInit /\ NoTcp

SpecUdp == InitUdp /\ [][UdpNext]_vars

\* The lifecycle of the datagram transport: the same handlers with every
\* close() call counted, on a transport that is given one short message
\* (one that fits a datagram, or one that takes two or three chunks).
UdpLifeInputs == (13..14) \X {13, 15}

UdpLifeInit ==
  /\ \E in \in UdpLifeInputs, reuseBuffer \in BOOLEAN :
       /\ udp = UdpConstructor(in[1], "none", reuseBuffer)
       /\ udpTask = <<NewTask(JsonOfLength(in[2]))>>
  /\ UdpIdle

\* One close() call, counted.
UdpCloseCall ==
  /\ udpCloses < MaxUdpCloses
  /\ udpCloses' = udpCloses + 1
  /\ UdpClose

UdpLifeNext ==
  \/ UdpConnect /\ UNCHANGED <<tcpVars, udpCloses, raised>>
  \/ UdpCloseCall /\ UNCHANGED <<tcpVars, raised>>
  \/ \E t \in DOMAIN udpTask : UdpSend(t) /\ UNCHANGED <<tcpVars, udpCloses, raised>>
  \/ \E t \in DOMAIN udpTask : UdpRandomBytes(t) /\ UNCHANGED <<tcpVars, udpCloses, raised>>
  \/ \E w \in DOMAIN udpWire, err \in BOOLEAN :
       UdpSendDone(w, err) /\ UNCHANGED <<tcpVars, udpCloses, raised>>

InitUdpLife == UdpLifeInit /\ NoTcp

SpecUdpLife == InitUdpLife /\ [][UdpLifeNext]_vars

\* JSON.stringify(message) of a second message of n bytes, none of which is a
\* byte of JsonOfLength.
OtherJsonOfLength(n) == [i \in 1..n |-> 100 + i]

\* Two send() calls in progress at once on a reuseBuffer = true transport:
\* the bufferSizes and the lengths of the two messages tried, as
\* <<bufferSize, first length, second length>>; both messages take chunks.
UdpTwoInputs == {<<25, 26, 27>>, <<24, 25, 26>>, <<18, 19, 20>>}

UdpTwoInit ==
  /\ \E in \in UdpTwoInputs :
       /\ udp = UdpConstructor(in[1], "none", TRUE)
       /\ udpTask = <<NewTask(JsonOfLength(in[2])), NewTask(OtherJsonOfLength(in[3]))>>
  /\ UdpIdle

UdpTwoNext ==
  \/ UdpConnect /\ UNCHANGED <<tcpVars, udpCloses, raised>>
  \/ \E t \in DOMAIN udpTask : UdpSend(t) /\ UNCHANGED <<tcpVars, udpCloses, raised>>
  \/ \E t \in DOMAIN udpTask : UdpRandomBytes(t) /\ UNCHANGED <<tcpVars, udpCloses, raised>>
  \/ \E w \in DOMAIN udpWire, err \in BOOLEAN :
       UdpSendDone(w, err) /\ UNCHANGED <<tcpVars, udpCloses, raised>>

InitUdpTwo == UdpTwoInit /\ NoTcp

SpecUdpTwo == InitUdpTwo /\ [][UdpTwoNext]_vars

(***************************************************************************)
(* The constructor of UdpTransport.                                        *)
(***************************************************************************)
kDefaultBufSize == 1400
supportedCompression == {"none", "zlib"}

\* `name = dflt` in the destructuring of options: undefined takes the default.
Default(v, dflt) == IF v = Undefined THEN dflt ELSE v

\* Number.isSafeInteger(v)
IsSafeInteger(v) == v.t = "number" /\ v.s = ""

\* v <= k for a number v and an integer k (false for NaN and Infinity).
NumLE(v, k) ==
  CASE v.s \in {"", "unsafe"} -> v.s = "" /\ v.n <= k
    [] v.s = "fraction" -> v.n < k
    [] OTHER -> FALSE

\* The first element of a sequence of <<failed, error>> checks that failed, or
\* "" when none did.
FirstFailure(checks) ==
  LET failed == {i \in DOMAIN checks : checks[i][1]}
  IN  IF failed = {} THEN ""
      ELSE checks[CHOOSE i \in failed : \A j \in failed : i <= j][2]

\* A constructor that validates graylogHost before compression.
UdpValidateHostFirst(o) ==
  LET bufferSize == Default(o.bufferSize, Num(kDefaultBufSize))
      compression == Default(o.compression, Str("zlib"))
      reuseBuffer == Default(o.reuseBuffer, Bool(TRUE))
  IN  FirstFailure(<<
        <<bufferSize.t # "number", "TypeError: bufferSize must be a number">>,
        <<NumLE(bufferSize, 0) \/ ~IsSafeInteger(bufferSize),
          "RangeError: bufferSize must be a safe positive integer">>,
        <<NumLE(bufferSize, kChunkHeaderSize),
          "RangeError: bufferSize must be larger than 12 to support chunking">>,
        <<o.graylogHost.t # "string", "TypeError: graylogHost must be a string">>,
        <<compression.t # "string", "TypeError: compression must be a string">>,
        <<compression.s \notin supportedCompression, "Error: unsupported compression type">>,
        <<o.graylogPort.t # "number", "TypeError: graylogPort must be a number">>,
        <<reuseBuffer.t # "boolean", "TypeError: reuseBuffer must be a boolean">> >>)

\* The checks of the constructor in the order the code makes them: the error
\* it throws, or "" when it goes on to set the fields.
UdpValidate(o) ==
  LET bufferSize == Default(o.bufferSize, Num(kDefaultBufSize))
      compression == Default(o.compression, Str("zlib"))
      reuseBuffer == Default(o.reuseBuffer, Bool(TRUE))
  IN  FirstFailure(<<
        <<bufferSize.t # "number", "TypeError: bufferSize must be a number">>,
        <<NumLE(bufferSize, 0) \/ ~IsSafeInteger(bufferSize),
          "RangeError: bufferSize must be a safe positive integer">>,
        <<NumLE(bufferSize, kChunkHeaderSize),
          "RangeError: bufferSize must be larger than 12 to support chunking">>,
        <<compression.t # "string", "TypeError: compression must be a string">>,
        <<compression.s \notin supportedCompression, "Error: unsupported compression type">>,
        <<o.graylogHost.t # "string", "TypeError: graylogHost must be a string">>,
        <<o.graylogPort.t # "number", "TypeError: graylogPort must be a number">>,
        <<reuseBuffer.t # "boolean", "TypeError: reuseBuffer must be a boolean">> >>)

\* The fields the constructor sets once every check has passed.
UdpFields(o) ==
  UdpConstructor(Default(o.bufferSize, Num(kDefaultBufSize)).n,
                 Default(o.compression, Str("zlib")).s,
                 Default(o.reuseBuffer, Bool(TRUE)).n = 1)

\* No UdpTransport object exists.
NoUdpTransport ==
  [bufferSize |-> 0, client |-> null, compression |-> "none",
   socket |-> nullSocket, reuseBuffer |-> TRUE]

\* new UdpTransport(options, client)
UdpNew ==
  /\ udp = NoUdpTransport
  /\ thrown = <<>>
  /\ IF UdpValidate(options) = ""
       THEN /\ udp' = UdpFields(options)
            /\ UNCHANGED thrown
       ELSE /\ thrown' = <<UdpValidate(options)>>
            /\ UNCHANGED udp
  /\ UNCHANGED <<udpSockets, udpClosed, udpCloses, udpTask, udpBufs, udpWire,
                 udpSentOn, udpInflight, raised, clientVars, errors>>

\* The values tried for each option of UdpTransport.
UdpCtorOptions ==
  {[NoOptions EXCEPT !.bufferSize = b, !.compression = c, !.graylogHost = h,
                     !.graylogPort = p, !.reuseBuffer = r] :
     b \in {Undefined, Str("foo"), Num(-1), Num(0), NotANumber, Infinity, Fraction(13),
            Unsafe, Num(kChunkHeaderSize), Num(kChunkHeaderSize + 1), Num(kDefaultBufSize)},
     c \in {Undefined, Num(1), Str("zzz"), Str("none"), Str("zlib")},
     h \in {Undefined, Num(1), Str("foo")},
     p \in {Undefined, Str("bar"), Num(3000)},
     r \in {Undefined, Num(5), Bool(TRUE), Bool(FALSE)}}

UdpCtorInit ==
  /\ options \in UdpCtorOptions
  /\ gelf = NoGelf
  /\ sent = <<>>
  /\ udp = NoUdpTransport
  /\ udpTask = <<>>
  /\ udpSockets = 0
  /\ udpClosed = <<>>
  /\ udpCloses = 0
  /\ udpBufs = <<>>
  /\ udpWire = <<>>
  /\ udpSentOn = nullSocket
  /\ udpInflight = {}
  /\ raised = <<>>
  /\ errors = <<>>
  /\ thrown = <<>>
  /\ NoTcp

\* The constructed transport can be connected and closed.
UdpCtorNext ==
  \/ UdpNew /\ UNCHANGED <<tcp, tcpSockets, tcpWritten, tcpNeedDrain, tcpEnded, tcpCalls,
                            tcpQueued, tcpDropped, tcpLive, tcpCloses, tcpDiscarded>>
  \/ /\ udp # NoUdpTransport
     /\ UdpConnect
     /\ UNCHANGED <<tcpVars, udpCloses, raised>>
  \/ /\ udp # NoUdpTransport
     /\ UdpCloseCall
     /\ UNCHANGED <<tcpVars, raised>>

SpecUdpCtor == UdpCtorInit /\ [][UdpCtorNext]_vars

(***************************************************************************)
(* The 'error' events of the sockets. Both transports publish to the one   *)
(* error channel of the client that owns them.                             *)
(***************************************************************************)

\* The errors a socket may emit.
SocketErrors == {"ECONNRESET", "EMSGSIZE"}

\* socket.on('error', (err) => { this.client.emit('error', err); }) of
\* TcpTransport.connect: what the handler emits on the client.
TcpOnError(err) == <<err>>

\* A handler that reports a fixed error of its own instead of the socket's.
UdpOnErrorReplaced(err) == <<"socket error">>

\* socket.on('error', (err) => { this.client.emit('error', err); }) of
\* UdpTransport.connect: what the handler emits on the client.
UdpOnError(err) == <<err>>

\* Socket sock of the stream transport emits 'error' with err. close() leaves
\* the handler registered and sets this.client to null.
TcpSocketError(sock, err) ==
  /\ sock \in 1..tcpSockets
  /\ Len(raised) < MaxSocketErrors
  /\ raised' = Append(raised, [transport |-> "tcp", sock |-> sock, err |-> err])
  /\ IF tcp.client = null
       THEN /\ thrown' = Append(thrown, "TypeError")
            /\ UNCHANGED errors
       ELSE /\ errors' = errors \o TcpOnError(err)
            /\ UNCHANGED thrown
  /\ UNCHANGED tcpVars

\* Socket sock of the datagram transport emits 'error' with err. After close()
\* this.client is null, and once the socket has closed its listeners are
\* removed: either way the event ends in an exception.
UdpSocketError(sock, err) ==
  /\ sock \in 1..udpSockets
  /\ Len(raised) < MaxSocketErrors
  /\ raised' = Append(raised, [transport |-> "udp", sock |-> sock, err |-> err])
  /\ IF udp.client = null
       THEN /\ \E listening \in BOOLEAN :
                 thrown' = Append(thrown, IF listening THEN "TypeError" ELSE err)
            /\ UNCHANGED errors
       ELSE /\ errors' = errors \o UdpOnError(err)
            /\ UNCHANGED thrown
  /\ UNCHANGED <<udp, udpSockets, udpClosed, udpCloses, udpTask, udpBufs, udpWire,
                 udpSentOn, udpInflight>>

\* A client with one transport of each kind, their lifecycles and the errors
\* of their sockets.
ErrInit ==
  /\ tcp = TcpConstructor(0)
  /\ tcpSockets = 0
  /\ tcpWritten = <<>>
  /\ tcpNeedDrain = {}
  /\ tcpEnded = <<>>
  /\ tcpCalls = 0
  /\ tcpQueued = <<>>
  /\ tcpDropped = {}
  /\ tcpLive = {}
  /\ tcpCloses = 0
  /\ tcpDiscarded = {}
  /\ udp = UdpConstructor(kChunkHeaderSize + 1, "none", TRUE)
  /\ udpTask = <<>>
  /\ UdpIdle

ErrNext ==
  \/ TcpConnect /\ UNCHANGED udpVars
  \/ TcpClose /\ UNCHANGED udpVars
  \/ \E sock \in 1..MaxConnects, err \in SocketErrors :
       /\ TcpSocketError(sock, err)
       /\ UNCHANGED <<udp, udpSockets, udpClosed, udpCloses, udpTask, udpBufs, udpWire,
                      udpSentOn, udpInflight>>
  \/ UdpConnect /\ UNCHANGED <<tcpVars, udpCloses, raised>>
  \/ UdpCloseCall /\ UNCHANGED <<tcpVars, raised>>
  \/ \E sock \in 1..MaxUdpConnects, err \in SocketErrors :
       UdpSocketError(sock, err) /\ UNCHANGED tcpVars

SpecErr == ErrInit /\ [][ErrNext]_vars

(***************************************************************************)
(* The GelfClient of lib/index.js, which owns a UdpTransport.              *)
(***************************************************************************)
kGelfVersion == "1.1"
supportedTransports == {"udp"}

\* const kLevels, by the name of the method generated for each level.
kLevels ==
  [emergency |-> 0, alert |-> 1, critical |-> 2, error |-> 3,
   warning |-> 4, notice |-> 5, info |-> 6, debug |-> 7]

\* Os.hostname()
Hostname == "hostname"

\* Objects: a native Error, and a plain object with the given keys.
NativeError == [t |-> "object", n |-> 0, s |-> "Error"]
PlainObject(keys) == [t |-> "object", n |-> 0, s |-> keys]

\* types.isNativeError(v)
IsNativeError(v) == v = NativeError

\* Number.isFinite(v)
IsFinite(v) == v.t = "number" /\ v.s \in {"", "fraction", "unsafe"}

\* Date.now() / 1000
Now == Fraction(1000)

\* The number of log calls one client is given.
MaxLogs == 1

\* The checks of the GelfClient constructor in the order the code makes them:
\* the error it throws, or "" when it goes on to construct the transport.
GelfValidate(o) ==
  LET host == Default(o.host, Str(Hostname))
      transport == Default(o.transport, Str("udp"))
      version == Default(o.version, Str(kGelfVersion))
  IN  FirstFailure(<<
        <<host.t # "string", "TypeError: host must be a string">>,
        <<version.t # "string", "TypeError: version must be a string">>,
        <<transport.t # "string", "TypeError: transport must be a string">>,
        <<transport.s \notin supportedTransports,
          "Error: unsupported transport: " \o transport.s>> >>)

\* new GelfClient(options), for an options object: the transport is always a
\* UdpTransport, whose constructor is given the same options and may throw.
GelfNew ==
  /\ gelf = NoGelf
  /\ udp = NoUdpTransport
  /\ thrown = <<>>
  /\ IF GelfValidate(options) # ""
       THEN /\ thrown' = <<GelfValidate(options)>>
            /\ UNCHANGED <<gelf, udp>>
       ELSE IF UdpValidate(options) # ""
         THEN /\ thrown' = <<UdpValidate(options)>>
              /\ UNCHANGED <<gelf, udp>>
         ELSE /\ gelf' = [gelf EXCEPT !.status = "constructed",
                                      !.host = Default(options.host, Str(Hostname)).s,
                                      !.version = Default(options.version,
                                                          Str(kGelfVersion)).s,
                                      !.transport = "udp"]
              /\ udp' = UdpFields(options)
              /\ UNCHANGED thrown
  /\ UNCHANGED <<options, sent, udpSockets, udpClosed, udpCloses, udpTask, udpBufs,
                 udpWire, udpSentOn, udpInflight, raised, errors>>

\* client.connect(): this[kTransport].connect(), which raises once close() has
\* set this[kTransport] to null.
GelfConnect ==
  /\ gelf.status # "none"
  /\ IF gelf.status = "closed"
       THEN /\ thrown = <<>>
            /\ thrown' = <<"TypeError">>
            /\ UNCHANGED <<udp, udpSockets, udpClosed, udpTask, udpBufs, udpWire,
                           udpSentOn, udpInflight, errors>>
       ELSE UdpConnect
  /\ UNCHANGED <<udpCloses, raised, clientVars>>

\* client.close()
GelfClose ==
  /\ gelf.status # "none"
  /\ IF gelf.status = "closed"
       THEN /\ thrown = <<>>
            /\ thrown' = <<"TypeError">>
            /\ UNCHANGED <<udp, udpSockets, udpClosed, udpCloses, udpTask, udpBufs,
                           udpWire, udpSentOn, udpInflight, errors, gelf>>
       ELSE /\ gelf' = [gelf EXCEPT !.status = "closed"]
            /\ udpCloses' = udpCloses + 1
            /\ UdpClose
  /\ UNCHANGED <<raised, options, sent>>

\* client.serializer = f: an assignment to a property of the client.
GelfSetSerializer(f) ==
  /\ gelf.status = "constructed"
  /\ gelf.serializer # f
  /\ gelf' = [gelf EXCEPT !.serializer = f]
  /\ UNCHANGED <<options, sent, udp, udpSockets, udpClosed, udpCloses, udpTask, udpBufs,
                 udpWire, udpSentOn, udpInflight, raised, errors, thrown>>

\* A level test that takes 8 for a level.
IsValidLevelOffByOne(level) == IsSafeInteger(level) /\ level.n >= 0 /\ level.n <= 8

\* const isValidLevel
IsValidLevel(level) == IsSafeInteger(level) /\ level.n >= 0 /\ level.n <= 7

\* The message [kLogFunction] composes. No additionalFields are given.
GelfMessage(short, full, timestamp, level) ==
  [version |-> gelf.version,
   host |-> gelf.host,
   short_message |-> IF ~IsNativeError(short) THEN short
                     ELSE PlainObject("name,message,stack"),
   full_message |-> full,
   level |-> IF IsValidLevel(level) THEN level.n ELSE 1,
   timestamp |-> IF IsFinite(timestamp) THEN timestamp ELSE Now]

\* JSON.stringify(message) in UdpTransport.send(): send() looks at no byte of
\* it, so the text is some tens of position-tagged bytes, whose number differs
\* between messages of different levels.
GelfJson(message) == JsonOfLength(40 + message.level)

\* this[kLogFunction](short, full, additionalFields, timestamp, level), called
\* by method: the message is composed and this[kTransport].send(message) runs
\* to its first await. On a closed client this[kTransport] is null.
GelfLogFunction(method, short, full, timestamp, level) ==
  /\ gelf.status # "none"
  /\ gelf.calls < MaxLogs
  /\ gelf' = [gelf EXCEPT !.calls = @ + 1]
  /\ IF gelf.status = "closed"
       THEN /\ thrown' = Append(thrown, "TypeError")
            /\ UNCHANGED <<sent, udp, udpSockets, udpClosed, udpTask, udpBufs, udpWire,
                           udpSentOn, udpInflight, errors>>
       ELSE LET message == GelfMessage(short, full, timestamp, level)
            IN  /\ sent' = Append(sent,
                                  [call |-> [method |-> method, short |-> short,
                                             full |-> full, timestamp |-> timestamp,
                                             level |-> level,
                                             serializer |-> gelf.serializer],
                                   message |-> message])
                /\ UdpSendFrom(Append(udpTask, NewTask(GelfJson(message))),
                               Len(udpTask) + 1)
  /\ UNCHANGED <<options, udpCloses, raised>>

\* The arguments the log methods are called with: <<shortMessage, fullMessage,
\* timestamp>>.
GelfText == <<Str("foo"), Str("bar"), Num(5)>>
GelfError == <<NativeError, Undefined, Undefined>>

\* The values given as the level argument of log().
GelfLevels ==
  {Undefined, Num(-1), Num(0), Num(7), Num(8), Fraction(3), Str("3")}

\* client.log(shortMessage, fullMessage, additionalFields, timestamp, level)
GelfLog ==
  \/ \E level \in GelfLevels :
       GelfLogFunction("log", GelfText[1], GelfText[2], GelfText[3], level)
  \/ GelfLogFunction("log", GelfError[1], GelfError[2], GelfError[3], Undefined)

\* client.emergency(...), ..., client.debug(...)
GelfLevelMethod ==
  \E method \in DOMAIN kLevels, a \in {GelfText, GelfError} :
    /\ a = GelfError => method = "error"
    /\ GelfLogFunction(method, a[1], a[2], a[3], Num(kLevels[method]))

\* The options objects given to the GelfClient constructor: one that sets only
\* what the transport requires, and that one with one more option set.
GelfBaseOptions ==
  [NoOptions EXCEPT !.graylogHost = Str("localhost"), !.graylogPort = Num(9000)]

GelfOptions ==
  {GelfBaseOptions}
    \cup {[GelfBaseOptions EXCEPT !.host = v] : v \in {Num(5), Str("foo")}}
    \cup {[GelfBaseOptions EXCEPT !.version = v] : v \in {Num(5), Str("99")}}
    \cup {[GelfBaseOptions EXCEPT !.transport = v] :
            v \in {Num(5), Str("xxx"), Str("udp"), Str("tcp")}}
    \cup {[GelfBaseOptions EXCEPT !.serializer = v] : v \in {Num(5), Function("custom")}}
    \cup {[GelfBaseOptions EXCEPT !.compression = v] : v \in {Str("none"), Str("zzz")}}
    \cup {[NoOptions EXCEPT !.transport = Str("xxx")]}

GelfInit ==
  /\ options \in GelfOptions
  /\ gelf = NoGelf
  /\ sent = <<>>
  /\ udp = NoUdpTransport
  /\ udpTask = <<>>
  /\ udpSockets = 0
  /\ udpClosed = <<>>
  /\ udpCloses = 0
  /\ udpBufs = <<>>
  /\ udpWire = <<>>
  /\ udpSentOn = nullSocket
  /\ udpInflight = {}
  /\ raised = <<>>
  /\ errors = <<>>
  /\ thrown = <<>>
  /\ NoTcp

\* The client's methods, and the continuations of its transport's send(): the
\* end of compression, and the completion of a datagram's write.
GelfNext ==
  \/ GelfNew /\ UNCHANGED <<tcp, tcpSockets, tcpWritten, tcpNeedDrain, tcpEnded, tcpCalls,
                             tcpQueued, tcpDropped, tcpLive, tcpCloses, tcpDiscarded>>
  \/ GelfConnect /\ UNCHANGED <<tcp, tcpSockets, tcpWritten, tcpNeedDrain, tcpEnded,
                                 tcpCalls, tcpQueued, tcpDropped, tcpLive, tcpCloses,
                                 tcpDiscarded>>
  \/ GelfClose /\ UNCHANGED <<tcp, tcpSockets, tcpWritten, tcpNeedDrain, tcpEnded,
                               tcpCalls, tcpQueued, tcpDropped, tcpLive, tcpCloses,
                               tcpDiscarded>>
  \/ GelfSetSerializer("custom")
       /\ UNCHANGED <<tcp, tcpSockets, tcpWritten, tcpNeedDrain, tcpEnded, tcpCalls,
                      tcpQueued, tcpDropped, tcpLive, tcpCloses, tcpDiscarded>>
  \/ GelfLog /\ UNCHANGED <<tcp, tcpSockets, tcpWritten, tcpNeedDrain, tcpEnded, tcpCalls,
                             tcpQueued, tcpDropped, tcpLive, tcpCloses, tcpDiscarded>>
  \/ GelfLevelMethod
       /\ UNCHANGED <<tcp, tcpSockets, tcpWritten, tcpNeedDrain, tcpEnded, tcpCalls,
                      tcpQueued, tcpDropped, tcpLive, tcpCloses, tcpDiscarded>>
  \/ \E t \in DOMAIN udpTask : UdpDeflated(t) /\ UNCHANGED <<tcpVars, udpCloses, raised>>
  \/ \E w \in DOMAIN udpWire :
       UdpSendDone(w, FALSE) /\ UNCHANGED <<tcpVars, udpCloses, raised>>

SpecGelf == GelfInit /\ [][GelfNext]_vars

(***************************************************************************)
(* Claims about UdpTransport                                               *)
(***************************************************************************)
\* The datagrams handed to the socket for send() call t, in dispatch order.
WireOf(t) == SelectSeq(udpWire, LAMBDA d : d.task = t)

\* The bytes send() call t is to deliver: the JSON, compressed if configured.
Serialized(t) ==
  IF udp.compression = "zlib" THEN Deflate(udpTask[t].json) ELSE udpTask[t].json

\* The message of call t is larger than bufferSize and needs 2..128 fragments.
NeedsChunks(t) ==
  /\ Len(Serialized(t)) > udp.bufferSize
  /\ Len(Serialized(t)) <= 128 * (udp.bufferSize - 12)

\* Call t has handed every fragment to the socket and no write failed.
AllSent(t) == NeedsChunks(t) /\ udpTask[t].pc = "done"

\* The fields of a chunk datagram.
SeqNo(d) == d.bytes[11]
SeqCount(d) == d.bytes[12]
MsgIdOf(d) == SubSeq(d.bytes, 3, 10)
Payload(d) == SubSeq(d.bytes, 13, Len(d.bytes))

\* The payloads of the datagrams ws with SequenceNumbers k..n-1, concatenated
\* in SequenceNumber order (by halves).
RECURSIVE Reassemble(_, _, _)
Reassemble(ws, k, n) ==
  IF k >= n THEN <<>>
  ELSE IF n = k + 1
    THEN LET is == {i \in DOMAIN ws : SeqNo(ws[i]) = k}
         IN  IF is = {} THEN <<>> ELSE Payload(ws[CHOOSE i \in is : TRUE])
  ELSE LET mid == (k + n) \div 2
       IN  Reassemble(ws, k, mid) \o Reassemble(ws, mid, n)

\* C2: for every chunked message, in either reuseBuffer mode, the payloads of
\* its datagrams concatenated in SequenceNumber order are exactly the
\* serialized message bytes.
C2_PayloadsReassemble ==
  \A t \in DOMAIN udpTask :
    AllSent(t) => Reassemble(WireOf(t), 0, Len(WireOf(t))) = Serialized(t)

\* C2, the part the code keeps: in reuseBuffer = true mode the serialized bytes
\* are a prefix of the reassembled payloads (the last datagram may carry stale
\* bytes after them).
C2_ReuseKeepsPrefix ==
  \A t \in DOMAIN udpTask :
    AllSent(t) /\ udp.reuseBuffer =>
      LET got == Reassemble(WireOf(t), 0, Len(WireOf(t)))
      IN  /\ Len(got) >= Len(Serialized(t))
          /\ SubSeq(got, 1, Len(Serialized(t))) = Serialized(t)

\* C3: every datagram of a chunked message starts with 0x1e 0x0f, they all
\* carry one MessageID and one SequenceCount, and once every send succeeded
\* the SequenceNumbers are 0..count-1, each on exactly one datagram.
C3_HeadersConsistent ==
  \A t \in DOMAIN udpTask :
    NeedsChunks(t) =>
      LET ws == WireOf(t)
      IN  /\ \A i \in DOMAIN ws :
               /\ ws[i].bytes[1] = 30
               /\ ws[i].bytes[2] = 15
               /\ MsgIdOf(ws[i]) = MsgIdOf(ws[1])
               /\ MsgIdOf(ws[i]) \in MessageIds
               /\ SeqCount(ws[i]) = SeqCount(ws[1])
          /\ udpTask[t].pc = "done" =>
               /\ Len(ws) > 0
               /\ \A k \in 0..(SeqCount(ws[1]) - 1) :
                    Cardinality({i \in DOMAIN ws : SeqNo(ws[i]) = k}) = 1
               /\ \A i \in DOMAIN ws : SeqNo(ws[i]) \in 0..(SeqCount(ws[1]) - 1)

\* All 128 chunks of the largest chunked message were sent, in either mode.
C3_Witness ==
  \E t \in DOMAIN udpTask :
    /\ AllSent(t)
    /\ Len(WireOf(t)) = 128
    /\ SeqNo(WireOf(t)[128]) = 127

\* C4: once every send of a chunked message succeeded, the number of datagrams
\* is ceil(byteLength / (bufferSize - 12)) and is the SequenceCount of every
\* header, in both modes.
C4_FragmentCount ==
  \A t \in DOMAIN udpTask :
    AllSent(t) =>
      LET ws == WireOf(t)
          n == Len(ws)
          per == udp.bufferSize - 12
      IN  /\ n * per >= Len(Serialized(t))
          /\ (n - 1) * per < Len(Serialized(t))
          /\ \A i \in DOMAIN ws : SeqCount(ws[i]) = n

\* A chunked message sent in fewer bytes per chunk than bufferSize allows,
\* in reuseBuffer = true mode, and the spec's case: 14 bytes at bufferSize 13.
C4_Witness ==
  \E t \in DOMAIN udpTask :
    /\ AllSent(t)
    /\ udp.reuseBuffer
    /\ udp.bufferSize = 18
    /\ Len(Serialized(t)) = 19
    /\ Len(WireOf(t)) = 4

C4_WitnessFourteen ==
  \E t \in DOMAIN udpTask :
    /\ AllSent(t)
    /\ udp.bufferSize = 13
    /\ udp.compression = "none"
    /\ Len(Serialized(t)) = 14
    /\ Len(WireOf(t)) = 14
    /\ \A i \in 1..14 : Len(WireOf(t)[i].bytes) = 13 /\ SeqNo(WireOf(t)[i]) = i - 1

\* Call t was given a message that needs more than 128 fragments, and is past
\* the size test.
Oversize(t) ==
  /\ Len(Serialized(t)) > udp.bufferSize
  /\ Len(Serialized(t)) > 128 * (udp.bufferSize - 12)
  /\ udpTask[t].pc \notin {"idle", "deflate"}

\* C5: a message that needs more than 128 fragments is not sent, not even in
\* part, and 'message too large' is emitted once on the client (the client the
\* transport holds until close()).
C5_OversizeRejected ==
  \A t \in DOMAIN udpTask :
    Oversize(t) =>
      /\ WireOf(t) = <<>>
      /\ udpBufs = <<>>
      /\ errors \in {<<>>, <<"message too large">>}
      /\ udpClosed = <<>> => errors = <<"message too large">>

\* 129 bytes at bufferSize 13 on a connected transport: rejected, one error.
C5_Witness ==
  \E t \in DOMAIN udpTask :
    /\ Oversize(t)
    /\ udp.socket # nullSocket
    /\ udp.compression = "none"
    /\ Len(Serialized(t)) = 129
    /\ errors = <<"message too large">>

\* C6: a message of at most bufferSize bytes (after compression, if enabled) is
\* sent as one datagram holding exactly those bytes, and nothing else is sent.
C6_SmallUnchunked ==
  \A t \in DOMAIN udpTask :
    Len(Serialized(t)) <= udp.bufferSize =>
      /\ \A i \in DOMAIN WireOf(t) : WireOf(t)[i].bytes = Serialized(t)
      /\ Len(WireOf(t)) <= 1
      /\ udpTask[t].pc = "done" => Len(WireOf(t)) = 1
      /\ udpBufs = <<>>

\* A compressed message of exactly bufferSize bytes was sent in one datagram.
C6_Witness ==
  \E t \in DOMAIN udpTask :
    /\ udp.compression = "zlib"
    /\ Len(Serialized(t)) = udp.bufferSize
    /\ udpTask[t].pc = "done"
    /\ Len(WireOf(t)) = 1

\* The writes of chunk buffers that are outstanding.
ChunkWrites == {w \in udpInflight : udpWire[w].buf # 0}

\* C7: with reuseBuffer = true at most one write of the chunk buffer is
\* outstanding, the outstanding write is of the newest fragment, and the
\* buffer keeps the bytes handed to the socket until that write has completed
\* (the next fragment is written and dispatched by the completion callback).
C7_Step ==
  udp.reuseBuffer =>
    /\ Cardinality(ChunkWrites') <= 1
    /\ \A w \in ChunkWrites' :
         /\ w = Len(udpWire')
         /\ udpBufs'[udpWire'[w].buf] = udpWire'[w].bytes
    /\ \A w \in ChunkWrites :
         w \in ChunkWrites' => udpBufs'[udpWire[w].buf] = udpBufs[udpWire[w].buf]
    /\ Len(udpWire') > Len(udpWire) =>
         /\ Len(udpWire') = Len(udpWire) + 1
         /\ ChunkWrites \cap ChunkWrites' = {}

C7_Sequential == [][C7_Step]_vars

\* The 3rd fragment of a message is outstanding, alone, after two completed.
C7_Witness ==
  /\ udp.reuseBuffer
  /\ Len(udpWire) = 3
  /\ ChunkWrites = {3}
  /\ SeqNo(udpWire[3]) = 2

\* C8: with reuseBuffer = true, once the write of fragment k completed with an
\* error, fragments 0..k are all that is ever dispatched for the message, each
\* once, and the error is emitted once on the client (the client the transport
\* holds until close()).
C8_Step ==
  \A t \in DOMAIN udpTask :
    /\ udpTask'[t].gotErr =>
         LET ws == SelectSeq(udpWire', LAMBDA d : d.task = t)
         IN  /\ \A i \in DOMAIN ws : SeqNo(ws[i]) = i - 1
             /\ udpInflight' = {}
             /\ errors' \in {<<>>, <<"send error">>}
             /\ udpClosed' = <<>> => errors' = <<"send error">>
    /\ udpTask[t].gotErr => udpWire' = udpWire /\ errors' = errors

C8_ErrorStops == [][C8_Step]_vars

\* The write of the 2nd fragment of a longer message failed: two datagrams.
C8_Witness ==
  \E t \in DOMAIN udpTask :
    /\ udpTask[t].gotErr
    /\ udpTask[t].numChunks > 2
    /\ Len(WireOf(t)) = 2
    /\ errors = <<"send error">>

\* C9: with reuseBuffer = false the continuation of send() hands all fragments
\* to the socket in one step, SequenceNumbers ascending from 0, while none of
\* the writes has completed, each from a buffer of its own that holds the
\* datagram's bytes.
C9_Step ==
  ~udp.reuseBuffer =>
    /\ \A b \in DOMAIN udpBufs : udpBufs'[b] = udpBufs[b]
    /\ \A t \in DOMAIN udpTask :
         NeedsChunks(t) /\ udpTask[t].pc = "randomBytes" /\ udpWire' # udpWire =>
           LET new == SubSeq(udpWire', Len(udpWire) + 1, Len(udpWire'))
               n == Len(new)
           IN  /\ udpTask'[t].pc = "done"
               /\ n * (udp.bufferSize - 12) >= Len(Serialized(t))
               /\ (n - 1) * (udp.bufferSize - 12) < Len(Serialized(t))
               /\ \A i \in DOMAIN new :
                    /\ new[i].task = t
                    /\ SeqNo(new[i]) = i - 1
                    /\ ~new[i].cb
                    /\ new[i].buf \in DOMAIN udpBufs' \ DOMAIN udpBufs
                    /\ udpBufs'[new[i].buf] = new[i].bytes
               /\ Cardinality({new[i].buf : i \in DOMAIN new}) = n
               /\ udpInflight' = udpInflight \cup (DOMAIN udpWire' \ DOMAIN udpWire)
    /\ \A t \in DOMAIN udpTask :
         NeedsChunks(t) /\ udpTask[t].pc # "randomBytes" =>
           \A i \in DOMAIN udpWire' : i > Len(udpWire) => udpWire'[i].task # t

C9_AllAtOnce == [][C9_Step]_vars

\* Four fragments are outstanding at once, from four buffers.
C9_Witness ==
  /\ ~udp.reuseBuffer
  /\ Len(udpWire) = 4
  /\ udpInflight = 1..4
  /\ Cardinality({udpWire[i].buf : i \in 1..4}) = 4

\* A step that is one counted close() call of the datagram transport.
IsUdpClose == udpCloses' = udpCloses + 1

C18_Step ==
  /\ (IsUdpClose /\ udp.socket = nullSocket) =>
        UNCHANGED <<udp, udpSockets, udpClosed, udpTask, udpBufs, udpWire, udpSentOn,
                    udpInflight, errors, thrown>>
  /\ (IsUdpClose /\ udp.socket # nullSocket) =>
        /\ udpClosed' = Append(udpClosed, udp.socket)
        /\ udp'.socket = nullSocket
        /\ thrown' = thrown
        /\ errors' = errors

\* C18: close() without a socket (before connect(), or after a close()) changes
\* no field and closes nothing; close() with a socket closes that socket and
\* forgets it; no close() raises and no socket is closed twice, in every
\* interleaving of close() and connect().
C18_UdpCloseIdempotent ==
  /\ [][C18_Step]_vars
  /\ [](\A i, j \in DOMAIN udpClosed : i # j => udpClosed[i] # udpClosed[j])
  /\ [](udpSockets = 0 => (udpClosed = <<>> /\ udp.client = "client"))

\* Four close() calls and one connect(): the one socket was closed once.
C18_Witness ==
  /\ udpCloses = 4
  /\ udpSockets = 1
  /\ udpClosed = <<1>>
  /\ udp.socket = nullSocket
  /\ thrown = <<>>

\* Two close() calls before connect() left the transport as constructed.
C18_WitnessBeforeConnect ==
  /\ udpCloses = 2
  /\ udpSockets = 0
  /\ udp.client = "client"
  /\ udpClosed = <<>>

\* C21: for every message longer than bufferSize that needs at most 128
\* fragments, the chunkSize send() computes is
\* ceil((byteLength + numChunks * 12) / numChunks), it is larger than 12 and at
\* most bufferSize, and every fragment datagram handed to the socket is
\* chunkSize bytes long, so at most bufferSize.
C21_ChunkSizeFits ==
  \A t \in DOMAIN udpTask :
    (NeedsChunks(t) /\ udpTask[t].kind = "chunked") =>
      LET n == udpTask[t].numChunks
          byteLength == Len(Serialized(t))
          chunkSize == udpTask[t].chunkSize
      IN  /\ (chunkSize - 1) * n < byteLength + n * 12
          /\ chunkSize * n >= byteLength + n * 12
          /\ chunkSize > 12
          /\ chunkSize <= udp.bufferSize
          /\ \A i \in DOMAIN udpWire :
                udpWire[i].task = t =>
                  /\ Len(udpWire[i].bytes) = chunkSize
                  /\ Len(udpWire[i].bytes) <= udp.bufferSize

\* 19 bytes at bufferSize 18: four datagrams of 17 bytes, one buffer each.
C21_Witness ==
  \E t \in DOMAIN udpTask :
    /\ AllSent(t)
    /\ ~udp.reuseBuffer
    /\ udp.bufferSize = 18
    /\ Len(Serialized(t)) = 19
    /\ udpTask[t].chunkSize = 17
    /\ \A i \in DOMAIN udpWire : Len(udpWire[i].bytes) = 17

\* A compressed message at the largest chunk size: chunkSize = bufferSize.
C21_WitnessFull ==
  \E t \in DOMAIN udpTask :
    /\ AllSent(t)
    /\ udp.compression = "zlib"
    /\ udpTask[t].chunkSize = udp.bufferSize
    /\ udp.bufferSize > 13

\* A step in which a socket emits 'error'.
IsSocketError == Len(raised') = Len(raised) + 1

C22_Step ==
  IsSocketError =>
    LET e == raised'[Len(raised')]
        client == IF e.transport = "tcp" THEN tcp.client ELSE udp.client
    IN  client # null =>
          /\ errors' = Append(errors, e.err)
          /\ thrown' = thrown

\* C22: while a transport holds its client (after connect() and before
\* close()), every 'error' a socket of it emits is emitted on the client once
\* and unchanged, for both transports, and nothing else is emitted.
C22_SocketErrorsForwarded ==
  /\ [][C22_Step]_vars
  /\ [][errors' # errors => IsSocketError]_vars

\* An error of the stream socket and then a different error of the datagram
\* socket reached the client in this order.
C22_Witness ==
  /\ Len(raised) = 2
  /\ raised[1].transport = "tcp"
  /\ raised[2].transport = "udp"
  /\ errors = <<"ECONNRESET", "EMSGSIZE">>
  /\ tcp.client # null
  /\ udp.client # null

\* new UdpTransport(options) has returned or thrown.
UdpCtorRan == thrown # <<>> \/ udp # NoUdpTransport

\* The options as the claim reads them, with the defaults for missing ones.
C23_BufferSize == IF options.bufferSize = Undefined THEN Num(1400) ELSE options.bufferSize
C23_Compression == IF options.compression = Undefined THEN Str("zlib") ELSE options.compression
C23_ReuseBuffer == IF options.reuseBuffer = Undefined THEN Bool(TRUE) ELSE options.reuseBuffer

\* The checks of the claim, in its order.
C23_BufferSizeIsNumber == C23_BufferSize.t = "number"
C23_BufferSizeIsPositiveSafe ==
  /\ C23_BufferSizeIsNumber
  /\ C23_BufferSize.s = ""
  /\ C23_BufferSize.n > 0
C23_BufferSizeOk == C23_BufferSizeIsPositiveSafe /\ C23_BufferSize.n > 12
C23_CompressionIsString == C23_Compression.t = "string"
C23_CompressionOk == C23_CompressionIsString /\ C23_Compression.s \in {"none", "zlib"}
C23_HostOk == options.graylogHost.t = "string"
C23_PortOk == options.graylogPort.t = "number"
C23_ReuseOk == C23_ReuseBuffer.t = "boolean"

\* C23: the UdpTransport constructor checks bufferSize (number, safe positive
\* integer, > 12), compression (string, supported), graylogHost (string),
\* graylogPort (number) and reuseBuffer (boolean) in this order; the first
\* check that fails throws its error and no transport is constructed; when
\* all pass the fields hold the options given, with the defaults bufferSize
\* 1400, compression 'zlib', reuseBuffer true, and socket null.
C23_ValidationOrder ==
  UdpCtorRan =>
    /\ ~C23_BufferSizeIsNumber =>
          thrown[1] = "TypeError: bufferSize must be a number"
    /\ (C23_BufferSizeIsNumber /\ ~C23_BufferSizeIsPositiveSafe) =>
          thrown[1] = "RangeError: bufferSize must be a safe positive integer"
    /\ (C23_BufferSizeIsPositiveSafe /\ ~C23_BufferSizeOk) =>
          thrown[1] = "RangeError: bufferSize must be larger than 12 to support chunking"
    /\ (C23_BufferSizeOk /\ ~C23_CompressionIsString) =>
          thrown[1] = "TypeError: compression must be a string"
    /\ (C23_BufferSizeOk /\ C23_CompressionIsString /\ ~C23_CompressionOk) =>
          thrown[1] = "Error: unsupported compression type"
    /\ (C23_BufferSizeOk /\ C23_CompressionOk /\ ~C23_HostOk) =>
          thrown[1] = "TypeError: graylogHost must be a string"
    /\ (C23_BufferSizeOk /\ C23_CompressionOk /\ C23_HostOk /\ ~C23_PortOk) =>
          thrown[1] = "TypeError: graylogPort must be a number"
    /\ (C23_BufferSizeOk /\ C23_CompressionOk /\ C23_HostOk /\ C23_PortOk
          /\ ~C23_ReuseOk) =>
          thrown[1] = "TypeError: reuseBuffer must be a boolean"
    /\ thrown # <<>> => (udp = NoUdpTransport /\ Len(thrown) = 1)
    /\ (C23_BufferSizeOk /\ C23_CompressionOk /\ C23_HostOk /\ C23_PortOk
          /\ C23_ReuseOk) =>
          /\ thrown = <<>>
          /\ udp.bufferSize = C23_BufferSize.n
          /\ udp.compression = C23_Compression.s
          /\ udp.reuseBuffer = (C23_ReuseBuffer.n = 1)
          /\ udpSockets = 0 => (udp.client = "client" /\ udp.socket = nullSocket)

\* Only graylogHost and graylogPort were given: the transport has the defaults.
C23_Witness ==
  /\ options.bufferSize = Undefined
  /\ options.compression = Undefined
  /\ options.reuseBuffer = Undefined
  /\ thrown = <<>>
  /\ udp = [bufferSize |-> 1400, client |-> "client", compression |-> "zlib",
            socket |-> nullSocket, reuseBuffer |-> TRUE]

\* A bad compression and a bad graylogHost together: compression is reported.
C23_WitnessOrder ==
  /\ options.compression = Str("zzz")
  /\ options.graylogHost = Num(1)
  /\ options.reuseBuffer = Num(5)
  /\ thrown = <<"Error: unsupported compression type">>
  /\ udp = NoUdpTransport

\* What the reuseBuffer = true path hands to the socket as datagram k of a
\* message msg: _send() is called for it with the bytes that the k datagrams
\* before it left over, each of which copied a full buffer.
ReuseDatagram(msg, numChunks, chunkSize, msgId, k) ==
  ChunkSend(msg, ChunkHeader(AllocUnsafe(chunkSize, 0), msgId, numChunks), k,
            Len(msg) - k * (chunkSize - kChunkHeaderSize))

\* The number of datagrams the reuseBuffer = true path sends for msg: _send()
\* is called again while bytes remain.
ReuseCount(msg, chunkSize) == Ceil(Len(msg), chunkSize - kChunkHeaderSize)

\* C27: the datagrams of a chunked message are the same in both reuseBuffer
\* modes: as many as the reuseBuffer = true path sends, and the datagram with
\* SequenceNumber k has the length of that path's datagram k and carries the
\* bytes that path copies from the message, at the same place.
C27_ModesAgree ==
  \A t \in DOMAIN udpTask :
    AllSent(t) =>
      LET ws == WireOf(t)
          task == udpTask[t]
      IN  /\ Len(ws) = ReuseCount(task.msg, task.chunkSize)
          /\ \A i \in DOMAIN ws :
               LET r == ReuseDatagram(task.msg, task.numChunks, task.chunkSize,
                                      MsgIdOf(ws[i]), SeqNo(ws[i]))
               IN  /\ Len(ws[i].bytes) = Len(r.chunk)
                   /\ SubSeq(Payload(ws[i]), 1, r.bytesToCopy)
                        = SubSeq(SubSeq(r.chunk, kOffsetPayload + 1, Len(r.chunk)), 1, r.bytesToCopy)

\* C27, the part the code keeps: both modes send the same number of datagrams
\* of the same length, with the same header but for the MessageID drawn.
C27_SameCountAndLength ==
  \A t \in DOMAIN udpTask :
    AllSent(t) =>
      LET ws == WireOf(t)
          task == udpTask[t]
      IN  /\ Len(ws) = ReuseCount(task.msg, task.chunkSize)
          /\ \A i \in DOMAIN ws :
               LET r == ReuseDatagram(task.msg, task.numChunks, task.chunkSize,
                                      MsgIdOf(ws[i]), SeqNo(ws[i]))
               IN  /\ Len(ws[i].bytes) = Len(r.chunk)
                   /\ SubSeq(ws[i].bytes, 1, kChunkHeaderSize)
                        = SubSeq(r.chunk, 1, kChunkHeaderSize)

\* C27 for the reuseBuffer = true path alone: the datagrams it is seen to send
\* are the ones ReuseDatagram computes.
C27_ReusePath ==
  \A t \in DOMAIN udpTask :
    (AllSent(t) /\ udp.reuseBuffer) =>
      LET ws == WireOf(t)
          task == udpTask[t]
      IN  /\ Len(ws) = ReuseCount(task.msg, task.chunkSize)
          /\ \A i \in DOMAIN ws :
               LET r == ReuseDatagram(task.msg, task.numChunks, task.chunkSize,
                                      MsgIdOf(ws[i]), SeqNo(ws[i]))
               IN  /\ Len(ws[i].bytes) = Len(r.chunk)
                   /\ SubSeq(Payload(ws[i]), 1, r.bytesToCopy)
                        = SubSeq(SubSeq(r.chunk, kOffsetPayload + 1, Len(r.chunk)), 1, r.bytesToCopy)

\* A step in which send() call t goes on after an await or in the completion
\* callback of a fragment, on a transport whose endpoint close() has released.
ContinuesAfterClose(t) ==
  /\ udpClosed # <<>>
  /\ udp.socket = nullSocket
  /\ udpTask[t].pc \in {"deflate", "randomBytes", "sending"}
  /\ udpTask'[t] # udpTask[t]

\* C28: when close() came between a send() call and the end of its compression
\* or of its MessageID generation, or between two fragment completions (one
\* that reports an error too), what is left of that send() hands nothing to a
\* socket and raises nothing: no exception out of a callback, and no rejection
\* of the promise send() returned.
C28_Step ==
  \A t \in DOMAIN udpTask :
    ContinuesAfterClose(t) =>
      /\ udpWire' = udpWire
      /\ thrown' = thrown
      /\ udpTask'[t].pc \notin {"rejected", "crashed"}

C28_CloseDuringSend == [][C28_Step]_vars

\* C28, the part the code keeps: after close() the rest of a send() hands
\* nothing to a socket.
C28_NothingDispatched ==
  [][\A t \in DOMAIN udpTask : ContinuesAfterClose(t) => udpWire' = udpWire]_vars

\* close() came between two fragment completions and the callback raised.
C28_WitnessCrashed ==
  \E t \in DOMAIN udpTask :
    /\ udpTask[t].pc = "crashed"
    /\ udpClosed # <<>>
    /\ thrown # <<>>

\* C29: with two chunked send() calls in progress at once on a reuseBuffer =
\* true transport, in whatever order their completion callbacks run, no two
\* calls share a chunk buffer, and every datagram belongs to one message: it
\* carries the MessageID of that message's other datagrams, that message's
\* SequenceCount, the next SequenceNumber of that message, and payload bytes of
\* that message only, the ones at its SequenceNumber's place; once a call has
\* sent everything its SequenceNumbers are exactly 0..count-1.
C29_NoCrossTalk ==
  /\ \A i \in DOMAIN udpWire :
       LET d == udpWire[i]
           t == d.task
           json == udpTask[t].json
           own == WireOf(t)
           count == NumChunks(Len(json), udp.bufferSize)
           room == Len(d.bytes) - kChunkHeaderSize
           k == Cardinality({j \in 1..(i - 1) : udpWire[j].task = t})
           from == k * room
           copied == Min(room, Len(json) - from)
       IN  /\ \A j \in DOMAIN udpWire : udpWire[j].task # t => udpWire[j].buf # d.buf
           /\ MsgIdOf(d) = MsgIdOf(own[1])
           /\ SeqCount(d) = count
           /\ SeqNo(d) = k
           /\ \A b \in 1..room : Payload(d)[b] \in Range(json)
           /\ SubSeq(Payload(d), 1, copied) = SubSeq(json, from + 1, from + copied)
  /\ \A t \in DOMAIN udpTask :
       udpTask[t].pc = "done" =>
         {SeqNo(d) : d \in Range(WireOf(t))}
           = 0..(NumChunks(Len(udpTask[t].json), udp.bufferSize) - 1)

\* Both calls sent every fragment, and between two fragments of the first call
\* a fragment of the second was handed to the socket.
C29_Witness ==
  /\ \A t \in DOMAIN udpTask : udpTask[t].pc = "done" /\ udpTask[t].kind = "chunked"
  /\ \E i, j, k \in DOMAIN udpWire :
       /\ i < j /\ j < k
       /\ udpWire[i].task = 1 /\ udpWire[j].task = 2 /\ udpWire[k].task = 1

(***************************************************************************)
(* Claims about GelfClient                                                 *)
(***************************************************************************)
\* The constructor of GelfClient has run: it returned a client or it threw.
GelfRan == gelf.status # "none" \/ thrown # <<>>

\* The options other than transport are ones both constructors accept.
GelfOtherOptionsValid ==
  /\ Default(options.host, Str("h")).t = "string"
  /\ Default(options.version, Str("v")).t = "string"
  /\ UdpValidate(options) = ""

\* Every message the client composed was handed to its transport's send(),
\* one send() call per message, in order.
GelfForwarded ==
  /\ Len(udpTask) = Len(sent)
  /\ \A i \in DOMAIN sent : udpTask[i].json = GelfJson(sent[i].message)

\* C24: a GelfClient constructed with transport 'udp' or 'tcp' (or with none,
\* which means 'udp') has a transport of that kind and forwards the messages
\* it composes to it; with any other transport string the constructor throws
\* 'unsupported transport'.
C24_TransportSelected ==
  LET transport == Default(options.transport, Str("udp"))
  IN  (GelfRan /\ GelfOtherOptionsValid /\ transport.t = "string") =>
        IF transport.s \in {"udp", "tcp"}
          THEN /\ gelf.status # "none"
               /\ gelf.transport = transport.s
               /\ GelfForwarded
          ELSE /\ gelf.status = "none"
               /\ thrown = <<"Error: unsupported transport: " \o transport.s>>

\* The part of C24 the code keeps: 'udp' (or no transport option) constructs a
\* UdpTransport that is handed every message, and any string but 'udp' is
\* refused as unsupported ('tcp' too).
C24_UdpOnly ==
  LET transport == Default(options.transport, Str("udp"))
  IN  (GelfRan /\ GelfOtherOptionsValid /\ transport.t = "string") =>
        IF transport.s = "udp"
          THEN /\ gelf.status # "none"
               /\ gelf.transport = "udp"
               /\ udp # NoUdpTransport
               /\ GelfForwarded
          ELSE /\ gelf.status = "none"
               /\ udp = NoUdpTransport
               /\ thrown = <<"Error: unsupported transport: " \o transport.s>>

\* The constructor was given transport 'tcp' and has run.
C24_WitnessTcp == GelfRan /\ options.transport = Str("tcp")

\* The level of each level method, as the documentation lists them.
LevelOf(method) ==
  CASE method = "emergency" -> 0
    [] method = "alert" -> 1
    [] method = "critical" -> 2
    [] method = "error" -> 3
    [] method = "warning" -> 4
    [] method = "notice" -> 5
    [] method = "info" -> 6
    [] method = "debug" -> 7

\* C25: on a client that was not closed, every call of a level method or of
\* log() hands exactly one message to the transport's send(); the message of a
\* level method carries that method's level 0..7, and the message of log()
\* carries the level argument when it is an integer from 0 to 7 and 1
\* otherwise (missing, out of range, not an integer, not a number).
C25_Levels ==
  gelf.status = "constructed" =>
    /\ Len(sent) = gelf.calls
    /\ GelfForwarded
    /\ \A i \in DOMAIN sent :
         LET c == sent[i].call
             m == sent[i].message
         IN  IF c.method # "log" THEN m.level = LevelOf(c.method)
             ELSE IF c.level.t = "number" /\ c.level.s = "" /\ c.level.n \in 0..7
               THEN m.level = c.level.n
               ELSE m.level = 1

\* log() was called with level 8 and sent level 1.
C25_Witness ==
  /\ gelf.status = "constructed"
  /\ \E i \in DOMAIN sent :
       /\ sent[i].call.method = "log"
       /\ sent[i].call.level = Num(8)
       /\ sent[i].message.level = 1

\* debug() was called and sent level 7.
C25_WitnessDebug ==
  /\ gelf.status = "constructed"
  /\ \E i \in DOMAIN sent :
       /\ sent[i].call.method = "debug"
       /\ sent[i].message.level = 7

\* What GelfClient.defaultSerializer is documented to return: a string as it
\* is, undefined as undefined, and an Error as the JSON string of its name,
\* message and stack.
DocumentedDefaultSerializer(field) ==
  CASE field.t = "string" -> field
    [] field = Undefined -> Undefined
    [] field = NativeError -> Str("{\"name\":..,\"message\":..,\"stack\":..}")
    [] OTHER -> Str("JSON")

\* C26: the constructor throws a TypeError for a serializer option that is not
\* a function; short_message and full_message of every message are what the
\* client's serializer returned for the arguments: the default serializer's
\* result (strings unchanged, an Error as a JSON string), or, once
\* client.serializer was replaced, the replacement's result.
C26_SerializerApplied ==
  /\ (GelfRan /\ options.serializer \notin {Undefined, Function("custom")}
        /\ GelfValidate(options) = "") =>
       /\ gelf.status = "none"
       /\ thrown = <<"TypeError: serializer must be a function">>
  /\ \A i \in DOMAIN sent :
       LET c == sent[i].call
           m == sent[i].message
       IN  IF c.serializer = ""
             THEN /\ m.short_message = DocumentedDefaultSerializer(c.short)
                  /\ m.full_message = DocumentedDefaultSerializer(c.full)
             ELSE m.short_message = Str("zzz123")

\* The part of C26 the code keeps: string arguments are sent unchanged.
C26_StringsUnchanged ==
  \A i \in DOMAIN sent :
    LET c == sent[i].call
        m == sent[i].message
    IN  /\ c.short.t = "string" => m.short_message = c.short
        /\ c.full.t = "string" => m.full_message = c.full

\* An Error was logged and what was sent as short_message is an object.
C26_WitnessErrorObject ==
  \E i \in DOMAIN sent :
    /\ sent[i].call.short = NativeError
    /\ sent[i].message.short_message.t = "object"

====
